---- MODULE Spec2Model ----
(***************************************************************************)
(* Token lifecycle of the Alexa bridge (src/alexa-fn/oauth_module.py), the *)
(* two event-gateway senders (oauth_module.send_change_report and          *)
(* function_app.send_change_report_to_alexa), the request authenticator    *)
(* (src/alexa-fn/auth_module.py) and the Smart Home directive router       *)
(* (function_app.handle_smart_home_directive).                             *)
(*                                                                         *)
(* A Python dict is a TLA+ function whose DOMAIN is the dict's key set, so *)
(* "k in d", d.get(k) and d[k] = v keep their meaning.  Every operation    *)
(* of the code is an operator from the storage media (and the outcomes of  *)
(* the I/O it performs) to its return value and the media afterwards; the  *)
(* actions apply these operators to the state.                             *)
(***************************************************************************)
EXTENDS Integers, Sequences, FiniteSets, TLC

VARIABLES
    storage_type,      \* TOKEN_STORAGE_TYPE, fixed at import
    keyvault_client,   \* _keyvault_client is not None
    client_configured, \* SMART_HOME_CLIENT_ID and SMART_HOME_CLIENT_SECRET are set
    token_cache,       \* _token_cache: user_key -> tokens
    token_file,        \* the JSON file at TOKEN_FILE_PATH: <<>> when missing, else <<table>>
    keyvault,          \* the Key Vault secrets "oauth-tokens-<user_key>": user_key -> tokens
    now,               \* datetime.utcnow(), in minutes
    res,               \* what the last operation did and returned
    revoked,           \* history: the users revoked since their last stored exchange
    BYPASS_AUTH,       \* auth_module.BYPASS_AUTH, fixed at import
    ALLOWED_USER_ID,   \* ALLOWED_USER_ID ('' when not configured), fixed at import
    stores,            \* the store_tokens calls between their load and their return
    refreshes,         \* the refresh_access_token calls that interleave, each with its position
    threads            \* the threads the Lambda proxy started, in the order of their start

vars == <<storage_type, keyvault_client, client_configured,
          token_cache, token_file, keyvault, now, res, revoked,
          BYPASS_AUTH, ALLOWED_USER_ID, stores, refreshes, threads>>

----------------------------------------------------------------------------
(* Bounds and the small sets the inputs are drawn from.                    *)

\* timedelta(minutes=5) in get_valid_access_token.
SKEW_MINUTES == 5

Users == {"u1", "u2"}

\* A bearer token is the list of its dot-separated segments (str.split('.')).
\* The middle segment of StructuredToken is base64url of {"sub":"u2"}.
OpaqueToken1 == <<"Atza|1">>
OpaqueToken2 == <<"Atza|2">>
StructuredToken == <<"eyJhbGciOiJub25lIn0", "eyJzdWIiOiJ1MiJ9", "sig">>

\* None and '' (both falsy) for a token-valued expression.
NoToken == <<>>

\* None for a dict-valued expression; like {} it is falsy.
None == <<>>

\* Lifetimes (expires_in, in minutes) the provider may grant: one ending at
\* the skew, one beyond it.
ExpiresInValues == {SKEW_MINUTES, SKEW_MINUTES + 1}

----------------------------------------------------------------------------
(* Python dict helpers.                                                    *)

Has(d, k) == k \in DOMAIN d

\* d.get(k) with `default` standing for None.
Get(d, k, default) == IF k \in DOMAIN d THEN d[k] ELSE default

\* d[k] = v
Put(d, k, v) == [x \in DOMAIN d \cup {k} |-> IF x = k THEN v ELSE d[x]]

\* del d[k]
Del(d, k) == [x \in DOMAIN d \ {k} |-> d[x]]

\* `not x` for a dict or token
Falsy(x) == DOMAIN x = {}

\* datetime.isoformat() of a naive UTC time, and datetime.fromisoformat.
IsoFormat(t) == <<"iso", t, "">>
FromIsoFormat(str) == [ok |-> str[1] = "iso", time |-> str[2], aware |-> str[3] # ""]

----------------------------------------------------------------------------
(* TokenManager: the Credential Store.                                     *)
(*                                                                         *)
(* M is the storage media, [cache, file, kv].  io is the outcome of the    *)
(* backend I/O of one call: the file operations of the 'file' backend and  *)
(* the Key Vault requests of the 'azure_key_vault' backend either succeed  *)
(* or raise.                                                               *)

Media == [cache |-> token_cache, file |-> token_file, kv |-> keyvault]

\* hashlib.sha256(user_id.encode()).hexdigest(): a one-way, collision-free tag.
_get_user_key_of_all(user_id) == <<"sha256", "">>
_get_user_key(user_id) == <<"sha256", user_id>>

\* The outcomes of one call's backend I/O.
IoOutcomes ==
    IF storage_type = "file" \/ (storage_type = "azure_key_vault" /\ keyvault_client)
    THEN {"ok", "fail"} ELSE {"ok"}

\* delete_tokens makes two Key Vault requests: get_secret, begin_delete_secret.
DeleteIoOutcomes ==
    IF storage_type = "azure_key_vault" /\ keyvault_client
    THEN {"ok", "get_fail", "delete_fail"} ELSE IoOutcomes

\* The table json.load reads from the token file (it exists).
FileTable(M) == M.file[1]

\* store_tokens stamps its argument.
Stamp(tokens) == Put(tokens, "updated_at", IsoFormat(now))

\* The 'file' branch of store_tokens: load the table, set the user's entry,
\* dump the table; an I/O error leaves the file as it was and returns False.
store_tokens_file_unguarded(M, user_key, stamped, io) ==
    LET all_tokens == IF M.file # <<>> THEN FileTable(M) ELSE <<>>
    IN  [ok |-> io # "fail",
         M |-> [M EXCEPT !.file = <<Put(all_tokens, user_key, stamped)>>],
         wrote |-> IF io = "fail" THEN "none" ELSE "file"]
store_tokens_file(M, user_key, stamped, io) ==
    IF io = "fail"
    THEN [ok |-> FALSE, M |-> M, wrote |-> "none"]
    ELSE LET all_tokens == IF M.file # <<>> THEN FileTable(M) ELSE <<>>
         IN  [ok |-> TRUE,
              M |-> [M EXCEPT !.file = <<Put(all_tokens, user_key, stamped)>>],
              wrote |-> "file"]

store_tokens(M, user_id, tokens, io) ==
    LET user_key == _get_user_key(user_id)
        stamped  == Stamp(tokens)
        in_cache == [M EXCEPT !.cache = Put(M.cache, user_key, stamped)]
    IN  CASE storage_type = "memory" ->
               [ok |-> TRUE, M |-> in_cache, wrote |-> "cache"]
          [] storage_type = "file" -> store_tokens_file(M, user_key, stamped, io)
          [] storage_type = "azure_key_vault" ->
               IF ~keyvault_client
               THEN [ok |-> TRUE, M |-> in_cache, wrote |-> "cache"]
               ELSE IF io = "ok"
                    THEN [ok |-> TRUE,
                          M |-> [M EXCEPT !.kv = Put(M.kv, user_key, stamped)],
                          wrote |-> "kv"]
                    ELSE [ok |-> TRUE, M |-> in_cache, wrote |-> "cache"]
          [] OTHER -> [ok |-> FALSE, M |-> M, wrote |-> "none"]

get_tokens(M, user_id, io) ==
    LET user_key == _get_user_key(user_id)
    IN  CASE storage_type = "memory" -> Get(M.cache, user_key, None)
          [] storage_type = "file" ->
               IF io = "fail" THEN None
               ELSE IF M.file = <<>> THEN None
               ELSE Get(FileTable(M), user_key, None)
          [] storage_type = "azure_key_vault" ->
               IF ~keyvault_client THEN Get(M.cache, user_key, None)
               ELSE IF io = "ok"
                    THEN Get(M.kv, user_key, None)     \* a missing secret is ResourceNotFoundError
                    ELSE Get(M.cache, user_key, None)
          [] OTHER -> None

\* The 'file' branch of delete_tokens: nothing to do without a file;
\* otherwise load the table and, if the user has an entry, remove it and
\* dump the table.  An I/O error returns False and leaves the file as it was.
delete_tokens_file_unchecked(M, user_key, io) ==
    IF M.file = <<>> THEN [ok |-> TRUE, M |-> M]
    ELSE IF io = "fail" \/ user_key \notin DOMAIN FileTable(M)
    THEN [ok |-> FALSE, M |-> M]
    ELSE [ok |-> TRUE, M |-> [M EXCEPT !.file = <<Del(FileTable(M), user_key)>>]]
delete_tokens_file(M, user_key, io) ==
    IF M.file = <<>> THEN [ok |-> TRUE, M |-> M]
    ELSE IF io = "fail" THEN [ok |-> FALSE, M |-> M]
    ELSE [ok |-> TRUE, M |-> [M EXCEPT !.file = <<Del(FileTable(M), user_key)>>]]

delete_tokens(M, user_id, io) ==
    LET user_key   == _get_user_key(user_id)
        from_cache == [M EXCEPT !.cache = Del(M.cache, user_key)]
    IN  CASE storage_type = "memory" -> [ok |-> TRUE, M |-> from_cache]
          [] storage_type = "file" -> delete_tokens_file(M, user_key, io)
          [] storage_type = "azure_key_vault" ->
               IF ~keyvault_client THEN [ok |-> TRUE, M |-> from_cache]
               ELSE IF io = "get_fail" THEN [ok |-> TRUE, M |-> from_cache]
               ELSE IF user_key \notin DOMAIN M.kv THEN [ok |-> TRUE, M |-> M]
               ELSE IF io = "delete_fail" THEN [ok |-> TRUE, M |-> from_cache]
               ELSE [ok |-> TRUE, M |-> [M EXCEPT !.kv = Del(M.kv, user_key)]]
          [] OTHER -> [ok |-> FALSE, M |-> M]

----------------------------------------------------------------------------
(* Identity Resolver.                                                      *)

\* The segments that are base64url (unpadded) of a JSON object, with the
\* object each decodes to; a JSON null is written "".
JsonObjects ==
    "eyJzdWIiOiJ1MiJ9" :> [sub |-> "u2"] @@
    "eyJzdWIiOiJhYmMxMjMifQ" :> [sub |-> "abc123"] @@
    "eyJ1c2VyX2lkIjoidTEifQ" :> [user_id |-> "u1"] @@
    "eyJ1c2VySWQiOiJ1MSJ9" :> [userId |-> "u1"] @@
    "eyJhdWQiOiJjMSJ9" :> [aud |-> "c1"] @@
    "eyJzdWIiOiIiLCJ1c2VyX2lkIjoidTEifQ" :> [sub |-> "", user_id |-> "u1"] @@
    "eyJzdWIiOiJ1MiIsImF1ZCI6ImMxIn0" :> [sub |-> "u2", aud |-> "c1"] @@
    "eyJ1c2VySWQiOiJ1MSIsImF1ZCI6ImMxIn0" :> [userId |-> "u1", aud |-> "c1"] @@
    "eyJzdWIiOm51bGx9" :> [sub |-> ""] @@
    "eyJuYW1lIjoieCJ9" :> [name |-> "x"] @@
    "e30" :> <<>>

\* Segments for which a step raises: "a" is no base64, "_w" decodes to bytes
\* that are no UTF-8, "bm90IGpzb24" to text that is no JSON, and "WzFd" to
\* the JSON list [1], which has no keys().
UndecodableSegments == {"a", "_w", "bm90IGpzb24", "WzFd", "sig"}

\* base64.urlsafe_b64decode + json.loads of a token's middle segment: the
\* decoded claims, or ok = FALSE when a step raises.
DecodePayload(segment) ==
    IF segment \in DOMAIN JsonObjects
    THEN [ok |-> TRUE, payload |-> JsonObjects[segment]]
    ELSE [ok |-> FALSE, payload |-> None]

\* if len(parts) == 3
LooksStructuredLoosely(parts) == Len(parts) >= 3
LooksStructured(parts) == Len(parts) = 3

\* Returns the user id, or "" for None.
extract_user_id_from_token(access_token) ==
    IF LooksStructured(access_token)
    THEN LET d == DecodePayload(access_token[2])
         IN  IF ~d.ok THEN ""
             ELSE IF Get(d.payload, "sub", "") # "" THEN d.payload["sub"]
             ELSE IF Get(d.payload, "user_id", "") # "" THEN d.payload["user_id"]
             ELSE IF Get(d.payload, "userId", "") # "" THEN d.payload["userId"]
             ELSE Get(d.payload, "aud", "")
    ELSE ""

----------------------------------------------------------------------------
(* The provider's token endpoint and the event gateway, as seen by         *)
(* requests.post: status 0 stands for an exception (timeout, connection    *)
(* error, a 200 whose body response.json() cannot parse); a 200 carries a  *)
(* JSON body, which the code reads as a dict.                              *)

JsonBodies(access_tokens, refresh_tokens, lifetimes) ==
    { [k \in (IF at = NoToken THEN {} ELSE {"access_token"})
          \cup (IF rt = "" THEN {} ELSE {"refresh_token"})
          \cup (IF ei = 0 THEN {} ELSE {"expires_in"})
        |-> CASE k = "access_token" -> at
              [] k = "refresh_token" -> rt
              [] k = "expires_in" -> ei]
      : at \in access_tokens \cup {NoToken},
        rt \in refresh_tokens \cup {""},
        ei \in lifetimes \cup {0} }

Responses(bodies) ==
    {[status |-> 0, body |-> None], [status |-> 400, body |-> None]}
        \cup {[status |-> 200, body |-> b] : b \in bodies}

\* A live Key Vault client gives the store two media (the vault and the
\* fallback cache); the model then follows one user and opaque tokens only.
RemoteStore == storage_type = "azure_key_vault" /\ keyvault_client

\* The user ids the operations are called with.
Callers == IF RemoteStore THEN {"u1"} ELSE Users

ExchangeResponses ==
    Responses(JsonBodies(IF RemoteStore THEN {OpaqueToken1}
                         ELSE {OpaqueToken1, StructuredToken},
                         {"Atzr|1"}, ExpiresInValues))
RefreshResponses  ==
    Responses(JsonBodies({OpaqueToken2}, {"Atzr|2"}, {SKEW_MINUTES + 1}))

GatewayStatuses == {0, 202, 401, 403}

----------------------------------------------------------------------------
(* Token Lifecycle Manager.  Each operation is the set of its outcomes:    *)
(* one outcome for every way the I/O it performs can go.                   *)

\* requests counts the POSTs sent to the token endpoint; response is the
\* answer a successful call received (NoResponse otherwise); wrote is the
\* medium store_tokens wrote to; read is what get_tokens returned.
NoResponse == [status |-> -1, body |-> None]

Failure(M, error, requests, read) ==
    [ok |-> FALSE, tokens |-> None, error |-> error, M |-> M, requests |-> requests,
     response |-> NoResponse, wrote |-> "none", read |-> read]

Success(M, tokens, response, wrote, read) ==
    [ok |-> TRUE, tokens |-> tokens, error |-> "", M |-> M, requests |-> 1,
     response |-> response, wrote |-> wrote, read |-> read]

\* expires_at = datetime.utcnow() + timedelta(seconds=tokens['expires_in'])
ExpiresAtIssuance(expires_in) == now
ExpiresAt(expires_in) == now + expires_in

\* if 'expires_in' in tokens: tokens['expires_at'] = expires_at.isoformat()
WithExpiresAt(tokens) ==
    IF Has(tokens, "expires_in")
    THEN Put(tokens, "expires_at", IsoFormat(ExpiresAt(tokens["expires_in"])))
    ELSE tokens

\* actual_user_id: the id extracted from the access token, or else the
\* caller's user_id.
ActualUserIdOfCaller(extracted, user_id) == user_id
ActualUserId(extracted, user_id) == IF extracted = "" THEN user_id ELSE extracted

\* exchange_authorization_code once requests.post has answered response.
ExchangeWith(M, auth_code, user_id, response) ==
    IF response.status = 0
    THEN {Failure(M, "Error exchanging authorization code", 1, None)}
    ELSE IF response.status # 200
    THEN {Failure(M, "Token exchange failed", 1, None)}
    ELSE
      LET tokens0 == response.body
          access_token == Get(tokens0, "access_token", NoToken)
      IN  IF Falsy(access_token)
          THEN {Failure(M, "No access token in response", 1, None)}
          ELSE
            LET extracted == extract_user_id_from_token(access_token)
                actual_user_id == ActualUserId(extracted, user_id)
                tokens == WithExpiresAt(
                            Put(Put(Put(tokens0, "user_id", actual_user_id),
                                    "original_user_token", user_id),
                                "obtained_at", IsoFormat(now)))
            IN  { LET s == store_tokens(M, actual_user_id, tokens, io)
                  IN  IF s.ok
                      THEN Success(s.M, Stamp(tokens), response, s.wrote, None)
                      ELSE Failure(s.M, "Failed to store tokens", 1, None)
                  : io \in IoOutcomes }

exchange_authorization_code(M, auth_code, user_id) ==
    IF ~client_configured
    THEN {Failure(M, "Smart Home OAuth client credentials not configured", 0, None)}
    ELSE UNION { ExchangeWith(M, auth_code, user_id, response)
                 : response \in ExchangeResponses }

\* if 'refresh_token' not in new_tokens: new_tokens['refresh_token'] = refresh_token
PreserveRefreshTokenDropped(new_tokens, refresh_token) == new_tokens
PreserveRefreshToken(new_tokens, refresh_token) ==
    IF ~Has(new_tokens, "refresh_token")
    THEN Put(new_tokens, "refresh_token", refresh_token) ELSE new_tokens

\* refresh_token = current_tokens.get('refresh_token'); if not refresh_token
LacksRefreshTokenNever(current_tokens) == FALSE
LacksRefreshToken(current_tokens) == Get(current_tokens, "refresh_token", "") = ""

\* new_tokens as refresh_access_token hands it to store_tokens: the body of
\* the 200 response with the refresh token preserved and the metadata set.
RefreshedRecordOverCurrent(user_id, current_tokens, response) ==
    WithExpiresAt(
      Put(Put(Put(PreserveRefreshToken(response.body,
                                       Get(current_tokens, "refresh_token", "")),
                  "user_id", user_id),
              "obtained_at", IsoFormat(now)),
          "refreshed_at", IsoFormat(now))) @@ current_tokens
RefreshedRecord(user_id, current_tokens, response) ==
    WithExpiresAt(
      Put(Put(Put(PreserveRefreshToken(response.body,
                                       Get(current_tokens, "refresh_token", "")),
                  "user_id", user_id),
              "obtained_at", IsoFormat(now)),
          "refreshed_at", IsoFormat(now)))

\* refresh_access_token once requests.post has answered response.
RefreshAnswered(M, user_id, current_tokens, response) ==
    IF response.status = 0
    THEN {Failure(M, "Error refreshing access token", 1, current_tokens)}
    ELSE IF response.status # 200
    THEN {Failure(M, "Token refresh failed", 1, current_tokens)}
    ELSE
      LET new_tokens == RefreshedRecord(user_id, current_tokens, response)
      IN  { LET s == store_tokens(M, user_id, new_tokens, io)
            IN  IF s.ok
                THEN Success(s.M, Stamp(new_tokens), response, s.wrote,
                             current_tokens)
                ELSE Failure(s.M, "Failed to store refreshed tokens", 1,
                             current_tokens)
            : io \in IoOutcomes }

\* refresh_access_token after its get_tokens returned current_tokens.
RefreshWith(M, user_id, current_tokens) ==
    IF Falsy(current_tokens)
    THEN {Failure(M, "No tokens found for user", 0, current_tokens)}
    ELSE IF LacksRefreshToken(current_tokens)
    THEN {Failure(M, "No refresh token available", 0, current_tokens)}
    ELSE IF ~client_configured
    THEN {Failure(M, "Smart Home OAuth client credentials not configured", 0,
                  current_tokens)}
    ELSE UNION { RefreshAnswered(M, user_id, current_tokens, response)
                 : response \in RefreshResponses }

refresh_access_token(M, user_id) ==
    UNION { RefreshWith(M, user_id, get_tokens(M, user_id, io)) : io \in IoOutcomes }

\* if expires_at <= datetime.utcnow() + timedelta(minutes=5)
ExpiresSoonStrict(expires_at) == expires_at < now + SKEW_MINUTES
ExpiresSoon(expires_at) == expires_at <= now + SKEW_MINUTES

\* fromisoformat raised, or comparing its aware result with utcnow() did.
ParseRaisedNever(parsed) == FALSE
ParseRaised(parsed) == ~parsed.ok \/ parsed.aware

\* get_valid_access_token after its get_tokens returned tokens.  refreshed
\* tells whether it called refresh_access_token, and reread what that call's
\* own get_tokens returned.
ValidExisting(M, tokens) ==
    [ok |-> TRUE, access_token |-> Get(tokens, "access_token", NoToken),
     error |-> "", M |-> M, requests |-> 0, response |-> NoResponse,
     wrote |-> "none", refreshed |-> FALSE, read |-> tokens, reread |-> None]

\* What get_valid_access_token returns once its refresh_access_token call
\* has returned r.
ValidRefreshedOrStored(M, tokens, r) ==
    IF r.ok /\ ~Falsy(r.tokens)
    THEN [ValidExisting(M, tokens) EXCEPT
            !.access_token = Get(r.tokens, "access_token", NoToken),
            !.M = r.M, !.requests = r.requests, !.response = r.response,
            !.wrote = r.wrote, !.refreshed = TRUE, !.reread = r.read]
    ELSE [ValidExisting(M, tokens) EXCEPT
            !.M = r.M, !.requests = r.requests,
            !.refreshed = TRUE, !.reread = r.read]
ValidRefreshed(M, tokens, r) ==
    IF r.ok /\ ~Falsy(r.tokens)
    THEN [ValidExisting(M, tokens) EXCEPT
            !.access_token = Get(r.tokens, "access_token", NoToken),
            !.M = r.M, !.requests = r.requests, !.response = r.response,
            !.wrote = r.wrote, !.refreshed = TRUE, !.reread = r.read]
    ELSE [ValidExisting(M, tokens) EXCEPT
            !.ok = FALSE, !.access_token = NoToken, !.error = "Token refresh failed",
            !.M = r.M, !.requests = r.requests,
            !.refreshed = TRUE, !.reread = r.read]

ValidWith(M, user_id, tokens) ==
    LET existing == ValidExisting(M, tokens)
        failed(error) == [existing EXCEPT !.ok = FALSE, !.access_token = NoToken,
                                          !.error = error]
    IN  IF Falsy(tokens) THEN {failed("No tokens found for user")}
        ELSE IF Falsy(Get(tokens, "access_token", NoToken))
        THEN {failed("No access token available")}
        ELSE IF ~Has(tokens, "expires_at") THEN {existing}
        ELSE
          LET parsed == FromIsoFormat(tokens["expires_at"])
          IN  IF ParseRaised(parsed) THEN {existing}   \* except Exception: assume valid
              ELSE IF ExpiresSoon(parsed.time)
              THEN { ValidRefreshed(M, tokens, r)
                     : r \in refresh_access_token(M, user_id) }
              ELSE {existing}

get_valid_access_token(M, user_id) ==
    UNION { ValidWith(M, user_id, get_tokens(M, user_id, io)) : io \in IoOutcomes }

\* No medium holds a record of the user.
NoRecord(M, user_id) ==
    LET user_key == _get_user_key(user_id)
    IN  /\ user_key \notin DOMAIN M.cache
        /\ M.file = <<>> \/ user_key \notin DOMAIN FileTable(M)
        /\ user_key \notin DOMAIN M.kv

\* io is the way the backend I/O of the outcome went.
revoke_tokens_always_ok(M, user_id) ==
    { [ok |-> TRUE, error |-> "", M |-> delete_tokens(M, user_id, io).M, io |-> io]
      : io \in DeleteIoOutcomes }
revoke_tokens(M, user_id) ==
    { LET d == delete_tokens(M, user_id, io)
      IN  [ok |-> d.ok, error |-> IF d.ok THEN "" ELSE "Failed to delete tokens",
           M |-> d.M, io |-> io]
      : io \in DeleteIoOutcomes }

----------------------------------------------------------------------------
(* Event Gateway Client.  posts lists the gateway POSTs of the call, each  *)
(* <<bearer token, status>>; requests counts the POSTs to the token        *)
(* endpoint; retry is what the refresh after a 401 did ("none" when it was *)
(* not attempted) and retry_tokens the record it returned.  late_requests  *)
(* counts the token-endpoint POSTs sent after get_valid_access_token       *)
(* returned, and store_kept tells whether the store is as that call left   *)
(* it.                                                                     *)

Sent(v, ok, posts, M, requests, retry, retry_tokens) ==
    [ok |-> ok, posts |-> posts, M |-> M, requests |-> requests,
     read |-> v.read, refreshed |-> v.refreshed, retry |-> retry,
     retry_tokens |-> retry_tokens, late_requests |-> requests - v.requests,
     store_kept |-> (M = v.M)]

\* oauth_module.send_change_report
send_change_report(M, user_id) ==
    UNION {
        IF ~v.ok THEN {Sent(v, FALSE, <<>>, v.M, v.requests, "none", None)}
        ELSE { Sent(v, status = 202, << <<v.access_token, status>> >>, v.M, v.requests,
                    "none", None)
               : status \in GatewayStatuses }
        : v \in get_valid_access_token(M, user_id) }

\* elif response.status_code == 401
TokenRejectedOrAnyError(status) == status # 202
TokenRejected(status) == status = 401

\* function_app.send_change_report_to_alexa
send_change_report_to_alexa(M, user_id) ==
    IF user_id = ""
    THEN {[ok |-> FALSE, posts |-> <<>>, M |-> M, requests |-> 0, read |-> None,
           refreshed |-> FALSE, retry |-> "none", retry_tokens |-> None,
           late_requests |-> 0, store_kept |-> TRUE]}
    ELSE UNION {
        IF ~v.ok THEN {Sent(v, FALSE, <<>>, v.M, v.requests, "none", None)}
        ELSE UNION {
            LET first == <<v.access_token, status>>
            IN  IF status = 202
                THEN {Sent(v, TRUE, <<first>>, v.M, v.requests, "none", None)}
                ELSE IF TokenRejected(status)
                THEN UNION {
                       IF r.ok /\ ~Falsy(r.tokens)
                       THEN { Sent(v, retry_status = 202,
                                   <<first, <<Get(r.tokens, "access_token", NoToken),
                                              retry_status>> >>,
                                   r.M, v.requests + r.requests, "ok", r.tokens)
                              : retry_status \in GatewayStatuses }
                       ELSE {Sent(v, FALSE, <<first>>, r.M, v.requests + r.requests,
                                  "failed", None)}
                       : r \in refresh_access_token(v.M, user_id) }
                ELSE {Sent(v, FALSE, <<first>>, v.M, v.requests, "none", None)}
            : status \in GatewayStatuses }
        : v \in get_valid_access_token(M, user_id) }

----------------------------------------------------------------------------
(* The state machine: one action per operation, run to completion.         *)

AuthCodes == {"code1"}

StorageTypes == {"memory", "file", "azure_key_vault", "other"}

Init ==
    /\ storage_type \in StorageTypes
    /\ keyvault_client \in BOOLEAN
    /\ keyvault_client => storage_type = "azure_key_vault"
    /\ client_configured \in BOOLEAN
    /\ token_cache = <<>>
    /\ token_file = <<>>
    /\ keyvault = <<>>
    /\ now = 0
    /\ res = [op |-> "init"]
    /\ revoked = {}
    /\ stores = <<>>
    /\ refreshes = <<>>
    /\ threads = <<>>
    /\ BYPASS_AUTH = FALSE       \* the token operations read neither setting
    /\ ALLOWED_USER_ID = ""

Commit(M) ==
    /\ token_cache' = M.cache
    /\ token_file' = M.file
    /\ keyvault' = M.kv
    /\ UNCHANGED <<storage_type, keyvault_client, client_configured, now,
                   BYPASS_AUTH, ALLOWED_USER_ID, stores, refreshes, threads>>

ExchangeAuthorizationCode ==
    \E user_id \in Callers, auth_code \in AuthCodes :
      \E o \in exchange_authorization_code(Media, auth_code, user_id) :
        /\ Commit(o.M)
        /\ res' = [op |-> "exchange", user |-> user_id, ok |-> o.ok, tokens |-> o.tokens,
                   error |-> o.error, requests |-> o.requests, response |-> o.response,
                   wrote |-> o.wrote,
                   replaced |-> IF o.ok
                                THEN get_tokens(Media, o.tokens["user_id"], "ok")
                                ELSE None]
        /\ revoked' = IF o.ok THEN revoked \ {o.tokens["user_id"]} ELSE revoked

RefreshAccessToken ==
    \E user_id \in Callers :
      \E o \in refresh_access_token(Media, user_id) :
        /\ Commit(o.M)
        /\ res' = [op |-> "refresh", user |-> user_id, ok |-> o.ok, tokens |-> o.tokens,
                   error |-> o.error, requests |-> o.requests,
                   response |-> o.response, wrote |-> o.wrote, read |-> o.read]
        /\ UNCHANGED revoked

GetValidAccessToken ==
    \E user_id \in Callers :
      \E o \in get_valid_access_token(Media, user_id) :
        /\ Commit(o.M)
        /\ res' = [op |-> "get_valid", user |-> user_id, ok |-> o.ok,
                   access_token |-> o.access_token, error |-> o.error,
                   requests |-> o.requests, response |-> o.response, wrote |-> o.wrote,
                   refreshed |-> o.refreshed, read |-> o.read, reread |-> o.reread]
        /\ UNCHANGED revoked

RevokeTokens ==
    \E user_id \in Callers :
      \E o \in revoke_tokens(Media, user_id) :
        /\ Commit(o.M)
        /\ res' = [op |-> "revoke", user |-> user_id, ok |-> o.ok, error |-> o.error,
                   absent |-> NoRecord(Media, user_id), kept |-> (o.M = Media),
                   again |-> (user_id \in revoked)]
        /\ revoked' = IF o.ok THEN revoked \cup {user_id} ELSE revoked

GetTokens ==
    \E user_id \in Callers, io \in IoOutcomes :
      /\ Commit(Media)
      /\ res' = [op |-> "get", user |-> user_id, tokens |-> get_tokens(Media, user_id, io)]
      /\ UNCHANGED revoked

SendChangeReport ==
    \E user_id \in Callers :
      \E o \in send_change_report(Media, user_id) :
        /\ Commit(o.M)
        /\ res' = [op |-> "send", sender |-> "send_change_report", user |-> user_id,
                   ok |-> o.ok, posts |-> o.posts, requests |-> o.requests,
                   read |-> o.read, refreshed |-> o.refreshed, retry |-> o.retry,
                   retry_tokens |-> o.retry_tokens,
                   late_requests |-> o.late_requests, store_kept |-> o.store_kept]
        /\ UNCHANGED revoked

SendChangeReportToAlexa ==
    \E user_id \in Callers :
      \E o \in send_change_report_to_alexa(Media, user_id) :
        /\ Commit(o.M)
        /\ res' = [op |-> "send", sender |-> "send_change_report_to_alexa",
                   user |-> user_id, ok |-> o.ok, posts |-> o.posts,
                   requests |-> o.requests, read |-> o.read, refreshed |-> o.refreshed,
                   retry |-> o.retry, retry_tokens |-> o.retry_tokens,
                   late_requests |-> o.late_requests, store_kept |-> o.store_kept]
        /\ UNCHANGED revoked

\* The token lifecycle and the store, on every backend.
Next ==
    \/ ExchangeAuthorizationCode
    \/ RefreshAccessToken
    \/ GetValidAccessToken
    \/ RevokeTokens
    \/ GetTokens

Spec == Init /\ [][Next]_vars

\* The two gateway senders.  They reach the store only through
\* get_valid_access_token and refresh_access_token, which Spec follows on
\* every backend; here the store is the in-memory one.
SendInit == Init /\ storage_type = "memory"

SendNext ==
    \/ ExchangeAuthorizationCode
    \/ SendChangeReport
    \/ SendChangeReportToAlexa

SendSpec == SendInit /\ [][SendNext]_vars

\* expires_at values of records that this code did not write: text that is
\* no timestamp, a timestamp with a zone ('Z'), and a naive timestamp.
ForeignExpiresAt == { <<"text", 0, "">>, <<"iso", 0, "Z">>, IsoFormat(0) }

\* Records found in a persistent backend at start, written by another tool.
ForeignRecords ==
    { [k \in {"access_token", "expires_at"} \cup rt
         |-> CASE k = "access_token" -> OpaqueToken1
               [] k = "expires_at" -> e
               [] k = "refresh_token" -> "Atzr|1"]
      : e \in ForeignExpiresAt, rt \in {{}, {"refresh_token"}} }

\* A persistent backend that already holds a record for u1.
ForeignInit ==
    /\ storage_type \in {"file", "azure_key_vault"}
    /\ keyvault_client = (storage_type = "azure_key_vault")
    /\ client_configured \in BOOLEAN
    /\ token_cache = <<>>
    /\ \E record \in ForeignRecords :
         LET table == [k \in {_get_user_key("u1")} |-> record]
         IN  /\ token_file = IF storage_type = "file" THEN <<table>> ELSE <<>>
             /\ keyvault = IF storage_type = "file" THEN <<>> ELSE table
    /\ now = 0
    /\ res = [op |-> "init"]
    /\ revoked = {}
    /\ stores = <<>>
    /\ refreshes = <<>>
    /\ threads = <<>>
    /\ BYPASS_AUTH = FALSE
    /\ ALLOWED_USER_ID = ""

ForeignNext ==
    \/ GetValidAccessToken
    \/ GetTokens

ForeignSpec == ForeignInit /\ [][ForeignNext]_vars

\* The tokens given to the Identity Resolver: one to four segments, every
\* middle segment of the two tables above.
ResolverTokens ==
    LET middles == DOMAIN JsonObjects \cup UndecodableSegments
        heads == {"eyJhbGciOiJub25lIn0", "Atza|1"}
    IN  { <<m>> : m \in middles }
        \cup { <<h, m>> : h \in heads, m \in middles }
        \cup { <<h, m, t>> : h \in heads, m \in middles, t \in {"sig", ""} }
        \cup { <<h, m, t, "x">> : h \in heads, m \in middles, t \in {"sig"} }

ExtractUserIdFromToken ==
    \E access_token \in ResolverTokens :
      /\ res' = [op |-> "resolve", token |-> access_token,
                 user_id |-> extract_user_id_from_token(access_token)]
      /\ UNCHANGED <<storage_type, keyvault_client, client_configured,
                     token_cache, token_file, keyvault, now, revoked,
                     BYPASS_AUTH, ALLOWED_USER_ID, stores, refreshes, threads>>

ResolverNext == ExtractUserIdFromToken

ResolverSpec == SendInit /\ [][ResolverNext]_vars

\* The records two racing callers hand to store_tokens.
RacedRecords == { [access_token |-> OpaqueToken1], [access_token |-> OpaqueToken2] }

\* The processes that call store_tokens on the one file.
Workers == {1, 2}

\* all_tokens after `all_tokens[user_key] = tokens`: the table as loaded,
\* with the caller's entry set.
LoadedTable(M, user_key, stamped) ==
    Put(IF M.file # <<>> THEN FileTable(M) ELSE <<>>, user_key, stamped)

\* json.dump(all_tokens, f): what a call writes is the table it holds.
DumpedTableReread(M, call) ==
    LET user_key == _get_user_key(call.user_id)
    IN  LoadedTable(M, user_key, call.all_tokens[user_key])
DumpedTable(M, call) == call.all_tokens

\* store_tokens on the file, up to the end of its read: the file is loaded
\* and the entry set in the call's own table; an I/O error returns False.
StoreTokensLoad ==
    \E w \in Workers, user_id \in Users, tokens \in RacedRecords, io \in {"ok", "fail"} :
      /\ storage_type = "file"
      /\ w \in DOMAIN stores => stores[w].pc = "returned"
      /\ IF io = "fail"
         THEN /\ stores' = Put(stores, w, [pc |-> "returned", user_id |-> user_id,
                                           ok |-> FALSE, all_tokens |-> <<>>])
              /\ res' = [op |-> "store", worker |-> w, user |-> user_id, ok |-> FALSE]
         ELSE /\ stores' = Put(stores, w,
                               [pc |-> "loaded", user_id |-> user_id, ok |-> FALSE,
                                all_tokens |-> LoadedTable(Media, _get_user_key(user_id),
                                                           Stamp(tokens))])
              /\ UNCHANGED res
      /\ UNCHANGED <<storage_type, keyvault_client, client_configured,
                     token_cache, token_file, keyvault, now, revoked,
                     BYPASS_AUTH, ALLOWED_USER_ID, refreshes, threads>>

\* The rest of the call: the whole table is written over the file and True
\* returned; an I/O error returns False.
StoreTokensDump ==
    \E w \in DOMAIN stores, io \in {"ok", "fail"} :
      /\ stores[w].pc = "loaded"
      /\ token_file' = IF io = "ok" THEN <<DumpedTable(Media, stores[w])>> ELSE token_file
      /\ stores' = [stores EXCEPT ![w].pc = "returned", ![w].ok = (io = "ok")]
      /\ res' = [op |-> "store", worker |-> w, user |-> stores[w].user_id,
                 ok |-> (io = "ok")]
      /\ UNCHANGED <<storage_type, keyvault_client, client_configured,
                     token_cache, keyvault, now, revoked,
                     BYPASS_AUTH, ALLOWED_USER_ID, refreshes, threads>>

RaceInit == Init /\ storage_type = "file"

RaceNext == StoreTokensLoad \/ StoreTokensDump

\* Two processes storing on the file backend, each step of a call its own
\* action: nothing in store_tokens locks the file.
RaceSpec == RaceInit /\ [][RaceNext]_vars

\* get_tokens returns _token_cache.get(user_key), the stored dict itself, on
\* the memory backend and where the vault backend falls back to the cache;
\* the file and the vault give a dict parsed afresh.
ReturnsCacheEntry(io) ==
    \/ storage_type = "memory"
    \/ storage_type = "azure_key_vault" /\ (~keyvault_client \/ io = "fail")

\* The dict the caller of the last operation holds is the one in
\* _token_cache: store_tokens put its argument there (`_token_cache[user_key]
\* = tokens`) and exchange and refresh return that argument.
HeldIsStored ==
    CASE res.op = "get" ->
           \E io \in IoOutcomes :
             ReturnsCacheEntry(io) /\ get_tokens(Media, res.user, io) = res.tokens
      [] res.op \in {"exchange", "refresh"} -> res.ok /\ res.wrote = "cache"
      [] res.op = "mutate" -> res.shared
      [] OTHER -> FALSE

\* The user the held record was stored or read for.
HeldUser ==
    IF res.op = "exchange" THEN res.tokens["user_id"] ELSE res.user

\* What a caller does to the dict it holds: tokens.pop('refresh_token', None).
MutatedRecords(tokens) == { Del(tokens, "refresh_token") }

\* The caller of the last get, exchange or refresh changes the dict it was
\* given; a dict that is the stored object changes in the store as well.
CallerMutates ==
    /\ res.op \in {"get", "exchange", "refresh", "mutate"}
    /\ res.tokens # None
    /\ \E mutated \in MutatedRecords(res.tokens) :
         /\ token_cache' = IF HeldIsStored
                           THEN Put(token_cache, _get_user_key(HeldUser), mutated)
                           ELSE token_cache
         /\ res' = [op |-> "mutate", user |-> HeldUser, tokens |-> mutated,
                    shared |-> HeldIsStored]
    /\ UNCHANGED <<storage_type, keyvault_client, client_configured,
                   token_file, keyvault, now, revoked,
                   BYPASS_AUTH, ALLOWED_USER_ID, stores, refreshes, threads>>

OwnershipNext ==
    \/ ExchangeAuthorizationCode
    \/ RefreshAccessToken
    \/ GetTokens
    \/ CallerMutates

\* The backends whose records live in this process or in the file.
OwnershipInit == Init /\ ~keyvault_client /\ storage_type # "other"

\* The store and the callers that hold the records it hands out.
OwnershipSpec == OwnershipInit /\ [][OwnershipNext]_vars

\* A record of u2 that is in the store before u1 is served.
BystanderRecord ==
    [access_token |-> OpaqueToken2, refresh_token |-> "Atzr|2", user_id |-> "u2",
     updated_at |-> IsoFormat(0)]

\* The memory backend, empty, and the vault backend with a live client and
\* u2's record in the vault, in the fallback cache, or in both.
FrameInit ==
    /\ storage_type \in {"memory", "azure_key_vault"}
    /\ keyvault_client = (storage_type = "azure_key_vault")
    /\ client_configured = TRUE
    /\ LET table == _get_user_key("u2") :> BystanderRecord
       IN  IF storage_type = "memory"
           THEN token_cache = <<>> /\ keyvault = <<>>
           ELSE /\ token_cache \in {<<>>, table}
                /\ keyvault \in {<<>>, table}
                /\ token_cache # <<>> \/ keyvault # <<>>
    /\ token_file = <<>>
    /\ now = 0
    /\ res = [op |-> "init"]
    /\ revoked = {}
    /\ stores = <<>>
    /\ refreshes = <<>>
    /\ threads = <<>>
    /\ BYPASS_AUTH = FALSE
    /\ ALLOWED_USER_ID = ""

FrameNext ==
    \/ ExchangeAuthorizationCode
    \/ RefreshAccessToken
    \/ RevokeTokens

\* The operations that write, where another user's record is in the store.
FrameSpec == FrameInit /\ [][FrameNext]_vars

\* The record of u1 that is near expiry when the two calls start.
NearExpiryRecord ==
    [access_token |-> OpaqueToken1, refresh_token |-> "Atzr|1", user_id |-> "u1",
     expires_in |-> SKEW_MINUTES, expires_at |-> IsoFormat(SKEW_MINUTES),
     obtained_at |-> IsoFormat(0), updated_at |-> IsoFormat(0)]

\* The answers of the token endpoint to the two calls: they differ in the
\* access token, and may lack the refresh token or the lifetime.
RacedResponses ==
    Responses(JsonBodies({OpaqueToken2, StructuredToken}, {"Atzr|2"},
                         {SKEW_MINUTES + 1}))

\* A call that has returned.
Returned(call, ok) == [call EXCEPT !.pc = "returned", !.ok = ok]

\* refresh_access_token up to its request: the record is read and checked.
RefreshRead ==
    \E w \in Workers \ DOMAIN refreshes :
      LET current_tokens == get_tokens(Media, "u1", "ok")
          call == [pc |-> "read", user_id |-> "u1", ok |-> FALSE,
                   current_tokens |-> current_tokens, response |-> NoResponse,
                   new_tokens |-> None]
      IN  /\ refreshes' = Put(refreshes, w,
                              IF Falsy(current_tokens) \/ LacksRefreshToken(current_tokens)
                                 \/ ~client_configured
                              THEN Returned(call, FALSE) ELSE call)
          /\ UNCHANGED <<storage_type, keyvault_client, client_configured,
                         token_cache, token_file, keyvault, now, res, revoked,
                         BYPASS_AUTH, ALLOWED_USER_ID, stores, threads>>

\* requests.post returns (or raises) and, on a 200, new_tokens is built.
RefreshAnswer ==
    \E w \in DOMAIN refreshes, response \in RacedResponses :
      /\ refreshes[w].pc = "read"
      /\ LET call == refreshes[w]
         IN  refreshes' =
               [refreshes EXCEPT ![w] =
                  IF response.status # 200 THEN Returned(call, FALSE)
                  ELSE [call EXCEPT
                          !.pc = "answered", !.response = response,
                          !.new_tokens = RefreshedRecord(call.user_id,
                                                         call.current_tokens, response)]]
      /\ UNCHANGED <<storage_type, keyvault_client, client_configured,
                     token_cache, token_file, keyvault, now, res, revoked,
                     BYPASS_AUTH, ALLOWED_USER_ID, stores, threads>>

\* store_tokens(user_id, new_tokens) and the return.
RefreshStore ==
    \E w \in DOMAIN refreshes :
      /\ refreshes[w].pc = "answered"
      /\ LET s == store_tokens(Media, refreshes[w].user_id, refreshes[w].new_tokens, "ok")
         IN  /\ token_cache' = s.M.cache
             /\ refreshes' = [refreshes EXCEPT ![w] = Returned(@, s.ok)]
             /\ res' = [op |-> "refresh", worker |-> w, user |-> refreshes[w].user_id,
                        ok |-> s.ok]
      /\ UNCHANGED <<storage_type, keyvault_client, client_configured,
                     token_file, keyvault, now, revoked,
                     BYPASS_AUTH, ALLOWED_USER_ID, stores, threads>>

\* The memory backend holding u1's near-expiry record.
RefreshRaceInit ==
    /\ storage_type = "memory"
    /\ keyvault_client = FALSE
    /\ client_configured \in BOOLEAN
    /\ token_cache = _get_user_key("u1") :> NearExpiryRecord
    /\ token_file = <<>>
    /\ keyvault = <<>>
    /\ now = 0
    /\ res = [op |-> "init"]
    /\ revoked = {}
    /\ stores = <<>>
    /\ refreshes = <<>>
    /\ threads = <<>>
    /\ BYPASS_AUTH = FALSE
    /\ ALLOWED_USER_ID = ""

RefreshRaceNext == RefreshRead \/ RefreshAnswer \/ RefreshStore

\* Two calls of refresh_access_token for one user, each step its own action.
RefreshRaceSpec == RefreshRaceInit /\ [][RefreshRaceNext]_vars

\* validate_alexa_configuration: the Smart Home and the LWA client
\* credentials are all set.
validate_alexa_configuration(lwa_configured) == client_configured /\ lwa_configured

\* trigger_virtual_device_press: ok is what it returns, delivered whether
\* the gateway accepted the DoorbellPress event (202), posts the gateway
\* POSTs made.
trigger_virtual_device_press(M, device, lwa_configured) ==
    IF ~validate_alexa_configuration(lwa_configured)
    THEN {[ok |-> FALSE, delivered |-> FALSE, posts |-> <<>>, M |-> M]}
    ELSE IF ALLOWED_USER_ID = ""
    THEN {[ok |-> TRUE, delivered |-> FALSE, posts |-> <<>>, M |-> M]}
    ELSE { [ok |-> TRUE,                 \* result, or True when result is False
            delivered |-> r.ok, posts |-> r.posts, M |-> r.M]
           : r \in send_change_report_to_alexa(M, ALLOWED_USER_ID) }

\* The JSON bodies posted to /announce; device defaults to 'all'.
AnnounceBodies ==
    { <<>>, [message |-> ""], [message |-> "hello"],
      [message |-> "hello", device |-> "bedroom"] }

\* The HTTP answer of announce, with what the call did.
Announced(status, success, press_event_triggered, enqueued, o) ==
    [status |-> status, success |-> success,
     press_event_triggered |-> press_event_triggered, enqueued |-> enqueued,
     delivered |-> o.delivered, posts |-> o.posts, M |-> o.M]

\* announce; queued tells whether send_to_servicebus_queue succeeds.
announce(M, req_body, queued, lwa_configured) ==
    LET nothing == [delivered |-> FALSE, posts |-> <<>>, M |-> M]
    IN  IF Falsy(req_body) THEN {Announced(400, FALSE, FALSE, FALSE, nothing)}
        ELSE IF Get(req_body, "message", "") = ""
        THEN {Announced(400, FALSE, FALSE, FALSE, nothing)}
        ELSE IF ~queued THEN {Announced(500, FALSE, FALSE, FALSE, nothing)}
        ELSE { IF o.ok THEN Announced(200, TRUE, TRUE, TRUE, o)
               ELSE Announced(500, FALSE, FALSE, TRUE, o)
               : o \in trigger_virtual_device_press(M, Get(req_body, "device", "all"),
                                                    lwa_configured) }

Announce ==
    \E req_body \in AnnounceBodies, queued \in BOOLEAN, lwa_configured \in BOOLEAN :
      \E o \in announce(Media, req_body, queued, lwa_configured) :
        /\ Commit(o.M)
        /\ res' = [op |-> "announce", request |-> req_body, status |-> o.status,
                   success |-> o.success,
                   press_event_triggered |-> o.press_event_triggered,
                   enqueued |-> o.enqueued, delivered |-> o.delivered,
                   posts |-> o.posts]
        /\ UNCHANGED revoked

\* The user ids ALLOWED_USER_ID may be set to ('' when unset).
AllowedUserIds == {"", "u1"}

\* The memory backend, with or without an allowed user.
AnnounceInit ==
    /\ storage_type = "memory"
    /\ keyvault_client = FALSE
    /\ client_configured \in BOOLEAN
    /\ token_cache = <<>>
    /\ token_file = <<>>
    /\ keyvault = <<>>
    /\ now = 0
    /\ res = [op |-> "init"]
    /\ revoked = {}
    /\ stores = <<>>
    /\ refreshes = <<>>
    /\ threads = <<>>
    /\ BYPASS_AUTH = FALSE
    /\ ALLOWED_USER_ID \in AllowedUserIds

AnnounceNext == ExchangeAuthorizationCode \/ Announce

\* The announce endpoint, and the exchanges that give it tokens to send with.
AnnounceSpec == AnnounceInit /\ [][AnnounceNext]_vars

\* Grants given and withdrawn, on every backend.
ExchangeNext ==
    \/ ExchangeAuthorizationCode
    \/ RevokeTokens

ExchangeSpec == Init /\ [][ExchangeNext]_vars

----------------------------------------------------------------------------
(* Helpers of the properties below.                                        *)

\* The record a medium holds for a user (None when it holds none).
Stored(medium, user_id) ==
    LET user_key == _get_user_key(user_id)
    IN  CASE medium = "cache" -> Get(token_cache, user_key, None)
          [] medium = "file" ->
               IF token_file = <<>> THEN None ELSE Get(token_file[1], user_key, None)
          [] medium = "kv" -> Get(keyvault, user_key, None)
          [] OTHER -> None

\* The store keeps everything in _token_cache: the 'memory' backend, and
\* 'azure_key_vault' without a client.
CacheOnly ==
    storage_type = "memory" \/ (storage_type = "azure_key_vault" /\ ~keyvault_client)

\* The record has an expires_at that parses to a naive time.
Parseable(tokens) ==
    /\ Has(tokens, "expires_at")
    /\ FromIsoFormat(tokens["expires_at"]).ok
    /\ ~FromIsoFormat(tokens["expires_at"]).aware

ExpiryOf(tokens) == FromIsoFormat(tokens["expires_at"]).time

\* expires_at is more than the skew after now.
BeyondSkew(tokens) == Parseable(tokens) /\ ExpiryOf(tokens) > now + SKEW_MINUTES

AccessTokenOf(tokens) == Get(tokens, "access_token", NoToken)

----------------------------------------------------------------------------
(* C1.  A sendStateChange call for a user whose stored token is beyond the *)
(* skew, whose first gateway POST is answered 401 and whose POST retried   *)
(* after a successful refresh is answered 202, returns success, having     *)
(* made exactly two gateway POSTs and one refresh request -- for both      *)
(* senders.  The scenario is a call whose first POST got 401, whose record *)
(* has a refresh token, whose refresh (if attempted) did not fail and      *)
(* whose second POST (if made) got 202.                                    *)
C1_RetryAfter401Succeeds ==
    ( /\ res.op = "send"
      /\ BeyondSkew(res.read)
      /\ Has(res.read, "refresh_token")
      /\ Len(res.posts) >= 1
      /\ res.posts[1][2] = 401
      /\ res.retry # "failed"
      /\ (Len(res.posts) = 2 => res.posts[2][2] = 202) )
    => (res.ok /\ Len(res.posts) = 2 /\ res.requests = 1)

(* C2.  One sendStateChange call makes at most two gateway POSTs; a second *)
(* POST is made only after a first 401 and a successful refresh, carries   *)
(* the access token of the refreshed record (the one the store now holds), *)
(* and decides the call: success if and only if it is answered 202, with   *)
(* no refresh request beyond the one that preceded it.                     *)
C2_AtMostOneRetry ==
    res.op = "send" =>
      /\ Len(res.posts) <= 2
      /\ Len(res.posts) = 2 =>
           /\ res.posts[1][2] = 401
           /\ res.retry = "ok"
           /\ res.posts[2][1] = AccessTokenOf(res.retry_tokens)
           /\ res.posts[2][1] = AccessTokenOf(get_tokens(Media, res.user, "ok"))
           /\ (res.ok <=> res.posts[2][2] = 202)
           /\ res.requests = (IF res.refreshed THEN 2 ELSE 1)

\* A retried POST answered 401 again: the call has failed after two POSTs.
C2_Witness ==
    /\ res.op = "send"
    /\ Len(res.posts) = 2
    /\ res.posts[2][2] = 401
    /\ ~res.ok

(* C3, as stated.  For every stored record with a parseable expires_at,    *)
(* getValidAccessToken returns the stored access token and sends no        *)
(* request when expires_at is beyond the skew, and sends exactly one       *)
(* refresh request when expires_at is at or within the skew.  Read in the  *)
(* claim's favour: the record holds an access token, and the store answers *)
(* both reads of the call alike.                                           *)
C3_AsStated ==
    ( /\ res.op = "get_valid"
      /\ Parseable(res.read)
      /\ ~Falsy(AccessTokenOf(res.read))
      /\ res.refreshed => res.reread = res.read ) =>
      IF BeyondSkew(res.read)
      THEN res.ok /\ res.access_token = AccessTokenOf(res.read) /\ res.requests = 0
      ELSE res.requests = 1

(* C3, amended.  For every stored record with a parseable expires_at:      *)
(* beyond the skew, getValidAccessToken sends no request and returns the   *)
(* stored access token (or fails, when the record holds none); at or       *)
(* within the skew, a record with an access token makes it call refresh,   *)
(* which sends exactly one request when the record refresh reads has a     *)
(* refresh token and the client credentials are set, and none otherwise.   *)
C3_RefreshOnlyWithinSkew ==
    (res.op = "get_valid" /\ Parseable(res.read)) =>
      IF BeyondSkew(res.read)
      THEN /\ ~res.refreshed
           /\ res.requests = 0
           /\ IF Falsy(AccessTokenOf(res.read)) THEN ~res.ok
              ELSE res.ok /\ res.access_token = AccessTokenOf(res.read)
      ELSE /\ ~Falsy(AccessTokenOf(res.read)) => res.refreshed
           /\ Falsy(AccessTokenOf(res.read)) => ~res.ok /\ ~res.refreshed
           /\ res.requests =
                (IF /\ res.refreshed
                    /\ Get(res.reread, "refresh_token", "") # ""
                    /\ client_configured
                 THEN 1 ELSE 0)

\* A token exactly at the skew was refreshed with one request.
C3_Witness ==
    /\ res.op = "get_valid"
    /\ Parseable(res.read)
    /\ ExpiryOf(res.read) = now + SKEW_MINUTES
    /\ res.refreshed
    /\ res.requests = 1
    /\ res.ok

C5_RefreshTokenPreserved ==
    (res.op = "refresh" /\ res.ok) =>
      /\ Stored(res.wrote, res.user) = res.tokens
      /\ Get(res.tokens, "refresh_token", "") =
           (IF Has(res.response.body, "refresh_token")
            THEN res.response.body["refresh_token"]
            ELSE res.read["refresh_token"])

\* A refresh whose response had no refresh token kept the earlier one.
C5_Witness ==
    /\ res.op = "refresh"
    /\ res.ok
    /\ ~Has(res.response.body, "refresh_token")
    /\ Stored(res.wrote, res.user)["refresh_token"] = "Atzr|1"

(* C6.  When getValidAccessToken finds the token within the skew and the   *)
(* refresh succeeds, the token it returns is the access_token of the       *)
(* refresh response and equals the access token of the record a following  *)
(* get(userId) returns, on every backend.  Read in the claim's favour: the *)
(* following get's backend request succeeds, and the refresh response has  *)
(* an access_token.                                                        *)
C6_CallerAndStoreAgree ==
    ( /\ res.op = "get_valid"
      /\ res.refreshed
      /\ res.ok
      /\ ~Falsy(AccessTokenOf(res.response.body)) ) =>
      /\ res.access_token = AccessTokenOf(res.response.body)
      /\ AccessTokenOf(get_tokens(Media, res.user, "ok")) = res.access_token

(* C7.  Whenever store(userId, record) returns success, a get(userId) that *)
(* follows with no store or delete in between returns that record, on      *)
(* every backend; on the remote store whether the vault then answers or    *)
(* fails after a write that went to the fallback cache.  The stores are    *)
(* those of a successful exchange or refresh; res.tokens is the record     *)
(* store_tokens was given.                                                 *)
C7_GetReturnsWhatWasStored ==
    (res.op \in {"exchange", "refresh"} /\ res.ok) =>
      \A io \in (IF RemoteStore /\ res.wrote = "cache" THEN IoOutcomes ELSE {"ok"}) :
        get_tokens(Media, res.tokens["user_id"], io) = res.tokens

(* C8.  After revoke(userId) returned success, get(userId) returns absent  *)
(* and getValidAccessToken(userId) fails, in every later state until the   *)
(* next successful exchange stored for that user, on every backend.        *)
C8_RevokedStaysAbsent ==
    \A user_id \in revoked :
      /\ \A io \in IoOutcomes : get_tokens(Media, user_id, io) = None
      /\ \A v \in get_valid_access_token(Media, user_id) : ~v.ok

(* C9.  In every reachable state every record the store holds, in any of   *)
(* its media, has a non-empty access token.                                *)
C9_AccessTokenNeverEmpty ==
    \A user_id \in Users, medium \in {"cache", "file", "kv"} :
      Stored(medium, user_id) # None =>
        ~Falsy(AccessTokenOf(Stored(medium, user_id)))

\* The record a table holds for a user (None when it holds none).
RecordIn(table, user_id) == Get(table, _get_user_key(user_id), None)

\* The table the token file holds (empty when there is no file).
TableOf(file) == IF file = <<>> THEN <<>> ELSE file[1]

\* The record had an expires_at, and the record that replaced it has an
\* earlier one or none.
MovedBackward(old, new) ==
    /\ Has(old, "expires_at")
    /\ new # None
    /\ Has(new, "expires_at") => ExpiryOf(new) < ExpiryOf(old)

\* The step just taken was a successful refresh of user_id's record.
RefreshedNow(user_id) ==
    /\ res'.ok
    /\ res'.user = user_id
    /\ res'.op = "refresh" \/ (res'.op = "get_valid" /\ res'.refreshed)

\* The step just taken was a successful exchange stored under user_id.
ExchangedNow(user_id) ==
    res'.op = "exchange" /\ res'.ok /\ res'.tokens["user_id"] = user_id

----------------------------------------------------------------------------
(* Request Authenticator (auth_module.py).                                 *)
(*                                                                         *)
(* A request is [shape, headers, body, params], each of the last three a   *)
(* dict.  A nested path of the body is one key, named by the path and      *)
(* present when every step of the path is.  The Authorization header is    *)
(* <<scheme, token>>.  A location that is present but empty holds NoToken. *)

\* The token a request carries at a location: opaque, and naming the
\* location, so that the token a function returns tells where it was found.
TokenAt(location) == <<"Atza|", location>>

\* The body paths extract_token_from_alexa_request reads, in its order.
AlexaPaths ==
    << "directive.endpoint.scope.token", "directive.payload.scope.token",
       "context.System.user.accessToken", "session.user.accessToken" >>

\* The most locations of one request body that are present at once.
MaxBodyTokens == 2

\* The dicts over at most MaxBodyTokens of the keys of tokens, each value
\* the key's token or empty.
TokenDicts(tokens) ==
    UNION { { [k \in ks |-> IF k \in full THEN tokens[k] ELSE NoToken]
              : full \in SUBSET ks }
            : ks \in {x \in SUBSET DOMAIN tokens : Cardinality(x) <= MaxBodyTokens} }

\* The token of each of the given body paths.
TokensAt(paths) == [k \in paths |-> TokenAt(k)]

\* req.headers: without Authorization, or with a Bearer token (a structured
\* one, or empty), or with another scheme.
AuthorizationHeaders ==
    { <<>> } \cup
    { [Authorization |-> h]
      : h \in { <<"Bearer", StructuredToken>>, <<"Bearer", NoToken>>,
                <<"Basic", TokenAt("Authorization")>> } }

QueryToken == [access_token |-> TokenAt("query")]
BodyToken == [access_token |-> TokenAt("body")]

\* Directive-shaped and session-shaped requests.
AlexaRequests ==
    { [shape |-> "alexa", headers |-> h, body |-> b, params |-> <<>>]
      : h \in AuthorizationHeaders,
        b \in TokenDicts(TokensAt({AlexaPaths[i] : i \in 1..Len(AlexaPaths)})) }

\* HTTP-shaped requests.
HttpRequests ==
    { [shape |-> "http", headers |-> h, body |-> b, params |-> p]
      : h \in AuthorizationHeaders,
        b \in TokenDicts(BodyToken),
        p \in TokenDicts(QueryToken) }

\* The answers of the token-introspection endpoint to requests.get: status
\* 0 stands for an exception (timeout, connection error, a body that is not
\* JSON); a 200 carries a JSON body with or without user_id.
IntrospectionResponses ==
    { [status |-> 0, body |-> None], [status |-> 401, body |-> None],
      [status |-> 200, body |-> <<>>] }
        \cup { [status |-> 200, body |-> [user_id |-> u]] : u \in {"u1", "U1"} }

\* if response.status_code == 200 ... if user_id
IntrospectionAcceptsAny200(response) == response.status = 200
IntrospectionAccepts(response) ==
    response.status = 200 /\ Get(response.body, "user_id", "") # ""

\* Returns (is_valid, user_id, error_message); requests counts the GETs sent
\* to the introspection endpoint.  user_id "" stands for None.
validate_amazon_token(access_token, response) ==
    IF Falsy(access_token)
    THEN [ok |-> FALSE, user_id |-> "", error |-> "No access token provided",
          requests |-> 0]
    ELSE IF response.status = 0
    THEN [ok |-> FALSE, user_id |-> "", error |-> "Token validation error",
          requests |-> 1]
    ELSE IF IntrospectionAccepts(response)
    THEN [ok |-> TRUE, user_id |-> Get(response.body, "user_id", ""), error |-> "",
          requests |-> 1]
    ELSE IF response.status = 200
    THEN [ok |-> FALSE, user_id |-> "", error |-> "Invalid token format",
          requests |-> 1]
    ELSE [ok |-> FALSE, user_id |-> "", error |-> "Token validation failed",
          requests |-> 1]

\* auth_header and auth_header.startswith('Bearer ')
IsBearer(headers) ==
    Has(headers, "Authorization") /\ headers["Authorization"][1] = "Bearer"

\* auth_header[7:]
BearerToken(headers) == headers["Authorization"][2]

extract_token_from_alexa_request(req_body, req_headers) ==
    IF IsBearer(req_headers) THEN BearerToken(req_headers)
    ELSE IF Has(req_body, AlexaPaths[1]) THEN req_body[AlexaPaths[1]]
    ELSE IF Has(req_body, AlexaPaths[2]) THEN req_body[AlexaPaths[2]]
    ELSE IF Has(req_body, AlexaPaths[3]) THEN req_body[AlexaPaths[3]]
    ELSE IF Has(req_body, AlexaPaths[4]) THEN req_body[AlexaPaths[4]]
    ELSE None

extract_token_from_http_request(req) ==
    IF IsBearer(req.headers) THEN BearerToken(req.headers)
    ELSE IF ~Falsy(Get(req.params, "access_token", NoToken))
    THEN req.params["access_token"]
    ELSE IF Has(req.body, "access_token") THEN req.body["access_token"]
    ELSE None

\* Returns (is_authorized, error_message).
check_user_authorization_open(user_id) == [ok |-> TRUE, error |-> ""]
check_user_authorization(user_id) ==
    IF ALLOWED_USER_ID = "" THEN [ok |-> TRUE, error |-> ""]
    ELSE IF user_id = ALLOWED_USER_ID THEN [ok |-> TRUE, error |-> ""]
    ELSE [ok |-> FALSE, error |-> "User not authorized"]

\* The placeholder lookup in the token storage: always None.
validate_oauth_token_stored(access_token) ==
    IF \E k \in DOMAIN token_cache :
         Get(token_cache[k], "access_token", NoToken) = access_token
    THEN LET k == CHOOSE k \in DOMAIN token_cache :
                    Get(token_cache[k], "access_token", NoToken) = access_token
         IN  Get(token_cache[k], "user_id", "")
    ELSE ""
validate_oauth_token(access_token) == ""

\* if BYPASS_AUTH
BypassedNever == FALSE
Bypassed == BYPASS_AUTH

\* An AuthDecision (is_authenticated, user_id, error_message), with the
\* token that was extracted and the number of introspection requests sent.
Decision(ok, user_id, error, token, requests) ==
    [ok |-> ok, user_id |-> user_id, error |-> error, token |-> token,
     requests |-> requests]

\* What both entry points do with the extracted token once the storage
\* lookup has missed: validate_amazon_token, then check_user_authorization.
Introspect(access_token, response) ==
    LET v == validate_amazon_token(access_token, response)
    IN  IF ~v.ok
        THEN Decision(FALSE, "", "Invalid access token", access_token, v.requests)
        ELSE LET a == check_user_authorization(v.user_id)
             IN  IF ~a.ok
                 THEN Decision(FALSE, v.user_id, a.error, access_token, v.requests)
                 ELSE Decision(TRUE, v.user_id, "", access_token, v.requests)

authenticate_smart_home_request(req_body, req_headers, response) ==
    IF Bypassed THEN Decision(TRUE, "bypass", "", NoToken, 0)
    ELSE
      LET access_token == extract_token_from_alexa_request(req_body, req_headers)
      IN  IF Falsy(access_token)
          THEN Decision(FALSE, "", "Authentication required", access_token, 0)
          ELSE
            LET user_id == validate_oauth_token(access_token)
            IN  IF user_id # ""
                THEN LET a == check_user_authorization(user_id)
                     IN  IF ~a.ok THEN Decision(FALSE, user_id, a.error, access_token, 0)
                         ELSE Decision(TRUE, user_id, "", access_token, 0)
                ELSE Introspect(access_token, response)

\* An Alexa request is read without its headers.
authenticate_request(req, is_alexa_request, response) ==
    IF Bypassed THEN Decision(TRUE, "bypass", "", NoToken, 0)
    ELSE
      LET access_token ==
            IF is_alexa_request
            THEN extract_token_from_alexa_request(req.body, <<>>)
            ELSE extract_token_from_http_request(req)
      IN  IF Falsy(access_token)
          THEN Decision(FALSE, "", "Authentication required", access_token, 0)
          ELSE Introspect(access_token, response)

AuthInit ==
    /\ storage_type = "memory"
    /\ keyvault_client = FALSE
    /\ client_configured = FALSE
    /\ token_cache = <<>>
    /\ token_file = <<>>
    /\ keyvault = <<>>
    /\ now = 0
    /\ res = [op |-> "init"]
    /\ revoked = {}
    /\ stores = <<>>
    /\ refreshes = <<>>
    /\ threads = <<>>
    /\ BYPASS_AUTH \in BOOLEAN
    /\ ALLOWED_USER_ID \in AllowedUserIds

\* The result of an authentication: the decision, the request it was made
\* for, and the introspection response when one was asked for.
Authenticated(entry, req, is_alexa_request, d, response) ==
    /\ res' = [op |-> "authenticate", entry |-> entry, request |-> req,
               is_alexa_request |-> is_alexa_request,
               ok |-> d.ok, user_id |-> d.user_id, error |-> d.error,
               token |-> d.token, requests |-> d.requests,
               response |-> IF d.requests = 0 THEN NoResponse ELSE response]
    /\ UNCHANGED <<storage_type, keyvault_client, client_configured, token_cache,
                   token_file, keyvault, now, revoked, BYPASS_AUTH, ALLOWED_USER_ID, stores, refreshes, threads>>

AuthenticateSmartHomeRequest ==
    \E req \in AlexaRequests, response \in IntrospectionResponses :
      Authenticated("authenticate_smart_home_request", req, TRUE,
                    authenticate_smart_home_request(req.body, req.headers, response),
                    response)

AuthenticateRequest ==
    \E is_alexa_request \in BOOLEAN, response \in IntrospectionResponses :
      \E req \in (IF is_alexa_request THEN AlexaRequests ELSE HttpRequests) :
        Authenticated("authenticate_request", req, is_alexa_request,
                      authenticate_request(req, is_alexa_request, response), response)

AuthNext ==
    \/ AuthenticateSmartHomeRequest
    \/ AuthenticateRequest

AuthSpec == AuthInit /\ [][AuthNext]_vars

\* The identity the introspection response resolves ("" when none).
ResolvedIdentity == Get(res.response.body, "user_id", "")

(* C11.  With the bypass flag set, both entry points return success with   *)
(* the sentinel identity for every request, whatever its headers and body  *)
(* hold, and send no introspection request.                                *)
C11_BypassAlwaysAuthenticates ==
    (res.op = "authenticate" /\ BYPASS_AUTH) =>
      res.ok /\ res.user_id = "bypass" /\ res.requests = 0

\* Bypass authenticated a request that carries no token at all.
C11_Witness ==
    /\ res.op = "authenticate"
    /\ BYPASS_AUTH
    /\ res.entry = "authenticate_request"
    /\ res.request.headers = <<>>
    /\ res.request.body = <<>>
    /\ res.ok

(* C12.  Without bypass and with an allowed user A configured, a request   *)
(* is accepted only when the identity resolved for its token is exactly A, *)
(* and every resolved identity other than A is refused; with no allowed    *)
(* user configured every resolved identity is accepted.                    *)
C12_OnlyAllowedUser ==
    (res.op = "authenticate" /\ ~BYPASS_AUTH) =>
      /\ res.ok => (res.requests = 1 /\ res.user_id = ResolvedIdentity)
      /\ (ALLOWED_USER_ID # "" /\ res.ok) => ResolvedIdentity = ALLOWED_USER_ID
      /\ (ALLOWED_USER_ID # "" /\ ResolvedIdentity \notin {"", ALLOWED_USER_ID}) =>
           ~res.ok
      /\ (ALLOWED_USER_ID = "" /\ ResolvedIdentity # "") => res.ok

\* The allowed user is u1 and the token resolved to U1: refused.
C12_Witness ==
    /\ res.op = "authenticate"
    /\ ~BYPASS_AUTH
    /\ ALLOWED_USER_ID = "u1"
    /\ ResolvedIdentity = "U1"
    /\ ~res.ok
    /\ res.user_id = "U1"

(* C13.  Without bypass, when the introspection endpoint answers with a    *)
(* status other than 200, answers 200 without user_id, or the call fails,  *)
(* authentication fails with no user id; a request is accepted only on a   *)
(* 200 answer that names the user.                                         *)
C13_IntrospectionFailureRejects ==
    (res.op = "authenticate" /\ ~BYPASS_AUTH) =>
      /\ (res.requests = 1 /\ (res.response.status # 200 \/ ResolvedIdentity = "")) =>
           (~res.ok /\ res.user_id = "")
      /\ res.ok => (res.response.status = 200 /\ ResolvedIdentity # "")

\* A structured token naming u2 was refused because the introspection call
\* failed.
C13_Witness ==
    /\ res.op = "authenticate"
    /\ ~BYPASS_AUTH
    /\ res.token = StructuredToken
    /\ res.requests = 1
    /\ res.response.status = 0
    /\ ~res.ok

\* The first location of a request, in the discovery order, that holds a
\* usable (non-empty) token; NoToken when none does.
FirstUsableToken(req) ==
    IF IsBearer(req.headers) /\ ~Falsy(BearerToken(req.headers))
    THEN BearerToken(req.headers)
    ELSE IF \E i \in 1..Len(AlexaPaths) : ~Falsy(Get(req.body, AlexaPaths[i], NoToken))
    THEN LET i == CHOOSE i \in 1..Len(AlexaPaths) :
                    /\ ~Falsy(Get(req.body, AlexaPaths[i], NoToken))
                    /\ \A j \in 1..(i - 1) : Falsy(Get(req.body, AlexaPaths[j], NoToken))
         IN  req.body[AlexaPaths[i]]
    ELSE NoToken

(* C14.  Token discovery returns the token of the first location that      *)
(* holds one, in the order header, directive.endpoint.scope.token,         *)
(* directive.payload.scope.token, context.System.user.accessToken,         *)
(* session.user.accessToken; a location that is absent or empty is passed  *)
(* over, and no token is returned only when no location holds one.         *)
C14_FirstUsableLocationWins ==
    ( /\ res.op = "authenticate"
      /\ ~BYPASS_AUTH
      /\ res.entry = "authenticate_smart_home_request" ) =>
      res.token = FirstUsableToken(res.request)

(* C15.  When a request carries an Authorization: Bearer header with a     *)
(* token, that token is the one validated, whatever the body or the query  *)
(* hold, for both entry points and every request shape.                    *)
C15_HeaderTokenPreferred ==
    ( /\ res.op = "authenticate"
      /\ ~BYPASS_AUTH
      /\ IsBearer(res.request.headers)
      /\ ~Falsy(BearerToken(res.request.headers)) ) =>
      (res.token = BearerToken(res.request.headers) /\ res.requests = 1)

----------------------------------------------------------------------------
(* Directive router (function_app.py).                                     *)
(*                                                                         *)
(* A directive request is an Alexa request whose body also has the paths   *)
(* directive.header.namespace, directive.header.name and, as the directive *)
(* needs them, directive.endpoint.endpointId, directive.payload.grant.code *)
(* and directive.payload.grantee.token.  A handler returns the response,   *)
(* the calls it made in order, and the media afterwards.                   *)

\* VIRTUAL_DEVICES_CONFIG['virtualDevices']
VirtualDevices == {"bedroom"}

\* f"virtual-{device_key}-device"
EndpointId(device_key) == <<"virtual", device_key, "device">>

\* create_error_response_smart_home: the payload of an ErrorResponse.
ErrorResponse(error_type, error_message) ==
    [name |-> "ErrorResponse", type |-> error_type, message |-> error_message]

\* A response that is not an error.
EventResponse(name) == [name |-> name, type |-> "", message |-> ""]

Handled(response, calls, M) == [response |-> response, calls |-> calls, M |-> M]

handle_discovery_directive(M) ==
    { Handled(EventResponse("Discover.Response"),
              << <<"handle_discovery_directive">> >>, M) }

\* Returns (success, user_id, error_message); user_id "" stands for None.
get_user_id_from_access_token(access_token) ==
    LET user_id == extract_user_id_from_token(access_token)
    IN  IF user_id # "" THEN [ok |-> TRUE, user_id |-> user_id]
        ELSE [ok |-> FALSE, user_id |-> ""]

handle_power_controller_directive(M, body) ==
    LET endpoint_id == Get(body, "directive.endpoint.endpointId", <<>>)
        directive_name == Get(body, "directive.header.name", "")
        called == <<"handle_power_controller_directive">>
    IN  IF \A device_key \in VirtualDevices : EndpointId(device_key) # endpoint_id
        THEN { Handled(ErrorResponse("NO_SUCH_ENDPOINT", "Unknown device"),
                       <<called>>, M) }
        ELSE IF directive_name \in {"TurnOn", "TurnOff"}
        THEN
          LET power_state == IF directive_name = "TurnOn" THEN "ON" ELSE "OFF"
              access_token == Get(body, AlexaPaths[1], NoToken)
              extracted == get_user_id_from_access_token(access_token)
              user_id == IF ~Falsy(access_token) /\ extracted.ok
                         THEN extracted.user_id ELSE ""
          IN  IF user_id # ""
              THEN { Handled(EventResponse("Response"),
                             << called,
                                <<"send_change_report", user_id, endpoint_id,
                                  power_state>> >>,
                             o.M)
                     : o \in send_change_report(M, user_id) }
              ELSE { Handled(EventResponse("Response"), <<called>>, M) }
        ELSE { Handled(ErrorResponse("INVALID_DIRECTIVE",
                                     "Unsupported power controller directive"),
                       <<called>>, M) }

handle_alexa_directive(M, body) ==
    IF Get(body, "directive.header.name", "") = "ReportState"
    THEN { Handled(EventResponse("StateReport"), << <<"handle_alexa_directive">> >>, M) }
    ELSE { Handled(ErrorResponse("INVALID_DIRECTIVE", "Unsupported Alexa directive"),
                   << <<"handle_alexa_directive">> >>, M) }

handle_accept_grant(M, body) ==
    LET auth_code == Get(body, "directive.payload.grant.code", "")
        user_token == Get(body, "directive.payload.grantee.token", NoToken)
        called == <<"handle_accept_grant">>
        refused(message) ==
            { Handled(ErrorResponse("INVALID_AUTHORIZATION_CREDENTIAL", message),
                      <<called>>, M) }
    IN  IF auth_code = "" THEN refused("Missing authorization code")
        ELSE IF Falsy(user_token) THEN refused("Missing user token")
        ELSE
          LET extracted == IF Len(user_token) = 3
                           THEN extract_user_id_from_token(user_token) ELSE ""
              user_id == IF extracted # "" THEN extracted ELSE ALLOWED_USER_ID
          IN  IF user_id = "" THEN refused("User identification failed")
              ELSE { Handled(IF o.ok THEN EventResponse("AcceptGrant.Response")
                             ELSE ErrorResponse("ACCEPT_GRANT_FAILED",
                                                "Authorization failed"),
                             << called,
                                <<"exchange_authorization_code", auth_code, user_id>> >>,
                             o.M)
                     : o \in exchange_authorization_code(M, auth_code, user_id) }

handle_authorization_directive(M, body) ==
    IF Get(body, "directive.header.name", "") = "AcceptGrant"
    THEN { [o EXCEPT !.calls = << <<"handle_authorization_directive">> >> \o o.calls]
           : o \in handle_accept_grant(M, body) }
    ELSE { Handled(ErrorResponse("INVALID_DIRECTIVE",
                                 "Unsupported authorization directive"),
                   << <<"handle_authorization_directive">> >>, M) }

\* if namespace == 'Alexa.Authorization' and name == 'AcceptGrant'
SkipsAuthenticationForNamespace(namespace, name) == namespace = "Alexa.Authorization"
SkipsAuthentication(namespace, name) ==
    namespace = "Alexa.Authorization" /\ name = "AcceptGrant"

\* The response to a directive whose authentication failed with decision d.
AuthenticationFailedLeaking(d) ==
    ErrorResponse("INVALID_AUTHORIZATION_CREDENTIAL", d.error)
AuthenticationFailed(d) ==
    ErrorResponse("INVALID_AUTHORIZATION_CREDENTIAL", "Authentication failed")

\* decision is what authenticate_smart_home_request returned ([ok |-> TRUE]
\* with no user when it was not called), for each answer the introspection
\* endpoint can give.
handle_smart_home_directive(M, request_body, req_headers) ==
    LET namespace == Get(request_body, "directive.header.namespace", "")
        name == Get(request_body, "directive.header.name", "")
        skipped == SkipsAuthentication(namespace, name)
        decisions ==
            IF skipped THEN { Decision(TRUE, "", "", NoToken, 0) }
            ELSE { authenticate_smart_home_request(request_body, req_headers,
                                                   introspection)
                   : introspection \in IntrospectionResponses }
        authenticated == IF skipped THEN <<>>
                         ELSE << <<"authenticate_smart_home_request">> >>
        routed ==
            IF namespace = "Alexa.Discovery" /\ name = "Discover"
            THEN handle_discovery_directive(M)
            ELSE IF namespace = "Alexa.Authorization"
            THEN handle_authorization_directive(M, request_body)
            ELSE IF namespace = "Alexa.PowerController"
            THEN handle_power_controller_directive(M, request_body)
            ELSE IF namespace = "Alexa"
            THEN handle_alexa_directive(M, request_body)
            ELSE { Handled(ErrorResponse("INVALID_DIRECTIVE", "Unsupported directive"),
                           <<>>, M) }
    IN  UNION {
          IF ~d.ok
          THEN { [response |-> AuthenticationFailed(d), calls |-> authenticated,
                  M |-> M, decision |-> d] }
          ELSE { [response |-> o.response, calls |-> authenticated \o o.calls,
                  M |-> o.M, decision |-> d]
                 : o \in routed }
          : d \in decisions }

\* The custom-skill path of alexa_skill: authenticate_request, then the
\* request handling (not followed here); the HTTP status and the message.
\* The custom-skill answer to a request whose authentication failed with
\* decision d: status 401 and create_error_response("Authentication required").
AuthenticationRequired(d) ==
    [status |-> 401, message |-> "Sorry, Authentication required"]

alexa_skill_custom(req) ==
    { IF ~d.ok
      THEN AuthenticationRequired(d) @@ [decision |-> d]
      ELSE [status |-> 200, message |-> "handled", decision |-> d]
      : d \in { authenticate_request(req, TRUE, introspection)
                : introspection \in IntrospectionResponses } }

\* namespace and name of the directives sent to the router.
DirectiveNames ==
    { <<"Alexa.Discovery", "Discover">>, <<"Alexa.Authorization", "AcceptGrant">>,
      <<"Alexa.Authorization", "Revoke">>, <<"Alexa.PowerController", "TurnOn">>,
      <<"Alexa.PowerController", "TurnOff">>, <<"Alexa", "ReportState">>,
      <<"Alexa.Other", "Other">> }

\* The proxy adds the Authorization header only when it has a token.
SessionHeaders == { <<>>, [Authorization |-> <<"Bearer", StructuredToken>>] }

DirectiveBody(n, fields) ==
    [k \in {"directive.header.namespace", "directive.header.name"} \cup DOMAIN fields
       |-> CASE k = "directive.header.namespace" -> n[1]
             [] k = "directive.header.name" -> n[2]
             [] OTHER -> fields[k]]

\* The fields a directive of the given name may have beside its header.
DirectiveFields(n) ==
    LET scoped(tokens) == { <<>> } \cup { [k \in {AlexaPaths[1]} |-> t] : t \in tokens }
    IN  IF n = <<"Alexa.Authorization", "AcceptGrant">>
        THEN { <<>>, [k \in {"directive.payload.grant.code"} |-> "code1"] } \cup
             { [k \in {"directive.payload.grant.code", "directive.payload.grantee.token"}
                  |-> IF k = "directive.payload.grant.code" THEN "code1" ELSE t]
               : t \in {OpaqueToken1, StructuredToken} }
        ELSE IF n[1] = "Alexa.PowerController"
        THEN { [k \in DOMAIN f \cup {"directive.endpoint.endpointId"}
                  |-> IF k = "directive.endpoint.endpointId" THEN e ELSE f[k]]
               : f \in scoped({OpaqueToken1, StructuredToken}),
                 e \in {EndpointId("bedroom"), EndpointId("attic")} }
        ELSE scoped({OpaqueToken1})

DirectiveRequests ==
    UNION { { [shape |-> "alexa", headers |-> <<>>, body |-> DirectiveBody(n, f),
               params |-> <<>>]
              : f \in DirectiveFields(n) }
            : n \in DirectiveNames }

\* Session-shaped requests of a custom skill.
SessionRequests ==
    { [shape |-> "alexa", headers |-> h, body |-> b, params |-> <<>>]
      : h \in SessionHeaders,
        b \in TokenDicts(TokensAt({AlexaPaths[3], AlexaPaths[4]})) }

DirectiveInit ==
    /\ storage_type = "memory"
    /\ keyvault_client = FALSE
    /\ client_configured = TRUE
    /\ token_cache = <<>>
    /\ token_file = <<>>
    /\ keyvault = <<>>
    /\ now = 0
    /\ res = [op |-> "init"]
    /\ revoked = {}
    /\ stores = <<>>
    /\ refreshes = <<>>
    /\ threads = <<>>
    /\ BYPASS_AUTH \in BOOLEAN
    /\ ALLOWED_USER_ID = "u1"

HandleSmartHomeDirective ==
    \E req \in DirectiveRequests :
      \E o \in handle_smart_home_directive(Media, req.body, req.headers) :
        /\ Commit(o.M)
        /\ res' = [op |-> "directive", request |-> req, response |-> o.response,
                   calls |-> o.calls, ok |-> o.decision.ok, error |-> o.decision.error,
                   requests |-> o.decision.requests]
        /\ UNCHANGED revoked

AlexaSkillCustom ==
    \E req \in SessionRequests :
      \E o \in alexa_skill_custom(req) :
          /\ res' = [op |-> "custom", request |-> req,
                     response |-> [status |-> o.status, message |-> o.message],
                     ok |-> o.decision.ok, error |-> o.decision.error]
          /\ UNCHANGED <<storage_type, keyvault_client, client_configured,
                         token_cache, token_file, keyvault, now, revoked,
                         BYPASS_AUTH, ALLOWED_USER_ID, stores, refreshes, threads>>

DirectiveNext ==
    \/ HandleSmartHomeDirective
    \/ AlexaSkillCustom

DirectiveSpec == DirectiveInit /\ [][DirectiveNext]_vars

----------------------------------------------------------------------------
(* The Lambda proxy in front of alexa_skill (lambda_function.py).          *)

\* if 'directive' in event: header.get('namespace') == 'Alexa.Authorization'
is_authorization_directive(event) ==
    Get(event, "directive.header.namespace", "") = "Alexa.Authorization"

\* extract_lwa_token: the value at the first location that is present,
\* empty or not; None when no location is present.
extract_lwa_token(event) ==
    LET present == { i \in DOMAIN AlexaPaths : Has(event, AlexaPaths[i]) }
    IN  IF present = {} THEN NoToken
        ELSE event[AlexaPaths[CHOOSE i \in present : \A j \in present : i <= j]]

\* The answers of the profile endpoint to http.request: status 0 stands for
\* an exception (timeout, connection error, a 200 whose body is not JSON);
\* a 401 carries the JSON error, a 200 the profile or an empty object.
ProfileResponses ==
    { [status |-> 0, body |-> None],
      [status |-> 401, body |-> [error |-> "invalid_token"]],
      [status |-> 200, body |-> <<>>],
      [status |-> 200, body |-> [user_id |-> "u1"]] }

\* if response.status == 200
ProfileAcceptsAnyStatus(response) == response.status # 0
ProfileAccepts(response) == response.status = 200

\* Returns the user profile, None if invalid; requests are the GETs sent to
\* the profile endpoint, each with the Bearer token it carried.
validate_lwa_token(access_token, response) ==
    IF Falsy(access_token) THEN [user_profile |-> None, requests |-> <<>>]
    ELSE [user_profile |-> IF ProfileAccepts(response) THEN response.body ELSE None,
          requests |-> << [token |-> access_token, status |-> response.status] >>]

create_authentication_error_response ==
    ErrorResponse("INVALID_AUTHORIZATION_CREDENTIAL",
                  "Authentication failed - invalid or missing access token")

create_error_response == ErrorResponse("INTERNAL_ERROR", "Unable to process request")

\* The messageId is a fresh uuid, whatever the directive's own.
create_accept_grant_response(correlation_message_id) ==
    EventResponse("AcceptGrant.Response")

\* The body keys under 'directive'.
DirectiveKeys ==
    { "directive.header.namespace", "directive.header.name",
      "directive.endpoint.endpointId", "directive.payload.grant.code",
      "directive.payload.grantee.token", AlexaPaths[1], AlexaPaths[2] }

\* alexa_skill as a POST of the proxy reaches it: the HTTP status, the JSON
\* answer and the token storage it leaves.
alexa_skill(M, req_body, req_headers) ==
    IF Falsy(req_body)
    THEN { [status |-> 400, response |-> ErrorResponse("", "Invalid request format"),
            M |-> M] }
    ELSE IF DOMAIN req_body \cap DirectiveKeys # {}
    THEN { [status |-> 200, response |-> o.response, M |-> o.M]
           : o \in handle_smart_home_directive(M, req_body, req_headers) }
    ELSE { [status |-> o.status,
            response |-> [name |-> "CustomResponse", type |-> "",
                          message |-> o.message],
            M |-> M]
           : o \in alexa_skill_custom([shape |-> "alexa", headers |-> req_headers,
                                       body |-> req_body, params |-> <<>>]) }

\* forward_to_azure_function: the POST raises, or alexa_skill runs and its
\* answer arrives or is lost; request is the POST that was sent.
forward_to_azure_function(M, event, lwa_token, skip_auth) ==
    LET headers == IF ~Falsy(lwa_token) /\ ~skip_auth
                   THEN [Authorization |-> <<"Bearer", lwa_token>>] ELSE <<>>
        request == [headers |-> headers, body |-> event]
    IN  { [response |-> create_error_response, request |-> request, M |-> M] } \cup
        UNION { { [response |-> IF a.status = 200 THEN a.response
                                ELSE create_error_response,
                   request |-> request, M |-> a.M],
                  [response |-> create_error_response, request |-> request,
                   M |-> a.M] }
                : a \in alexa_skill(M, event, headers) }

\* if directive_name == 'AcceptGrant': the forward runs in a thread
IsAsynchronousNever(directive_name) == FALSE
IsAsynchronous(directive_name) == directive_name = "AcceptGrant"

\* What lambda_handler returned and did: the GETs to the profile endpoint,
\* the POSTs to alexa_skill it waited for, the threads it started.
Proxied(response, validations, forwards, started, M) ==
    [response |-> response, validations |-> validations, forwards |-> forwards,
     started |-> started, M |-> M]

\* response is the answer of the profile endpoint, if it is asked.
lambda_handler(M, event, response) ==
    IF is_authorization_directive(event)
    THEN IF IsAsynchronous(Get(event, "directive.header.name", ""))
         THEN { Proxied(create_accept_grant_response(<<>>), <<>>, <<>>, <<event>>, M) }
         ELSE { Proxied(f.response, <<>>, <<f.request>>, <<>>, f.M)
                : f \in forward_to_azure_function(M, event, NoToken, TRUE) }
    ELSE LET lwa_token == extract_lwa_token(event)
             v == validate_lwa_token(lwa_token, response)
         IN  IF Falsy(lwa_token)
             THEN { Proxied(create_authentication_error_response, <<>>, <<>>, <<>>, M) }
             ELSE IF Falsy(v.user_profile)
             THEN { Proxied(create_authentication_error_response, v.requests, <<>>,
                            <<>>, M) }
             ELSE { Proxied(f.response, v.requests, <<f.request>>, <<>>, f.M)
                    : f \in forward_to_azure_function(M, event, lwa_token, FALSE) }

\* The events Alexa sends to the proxy: directives of each kind with their
\* token at one location, at none or empty at the first, and a custom-skill
\* request.
LambdaEvents ==
    { DirectiveBody(<<"Alexa.Authorization", "AcceptGrant">>, f)
      : f \in { [k \in {"directive.payload.grant.code"} |-> "code1"],
                [k \in {"directive.payload.grant.code",
                        "directive.payload.grantee.token"}
                   |-> IF k = "directive.payload.grant.code" THEN "code1"
                       ELSE OpaqueToken1] } }
    \cup
    { DirectiveBody(<<"Alexa.Authorization", "Revoke">>, <<>>),
      DirectiveBody(<<"Alexa.Discovery", "Discover">>, <<>>),
      DirectiveBody(<<"Alexa.Discovery", "Discover">>,
                    [k \in {AlexaPaths[2]} |-> OpaqueToken1]),
      DirectiveBody(<<"Alexa.PowerController", "TurnOn">>,
                    [k \in {AlexaPaths[1], AlexaPaths[2]}
                       |-> IF k = AlexaPaths[1] THEN NoToken ELSE OpaqueToken1]),
      DirectiveBody(<<"Alexa", "ReportState">>,
                    [k \in {AlexaPaths[1]} |-> StructuredToken]),
      [k \in {AlexaPaths[3]} |-> OpaqueToken2] }

\* The most threads followed.
MaxThreads == 2

LambdaHandler ==
    \E event \in LambdaEvents, response \in ProfileResponses :
      \E o \in lambda_handler(Media, event, response) :
        /\ Len(threads) + Len(o.started) <= MaxThreads
        /\ token_cache' = o.M.cache
        /\ token_file' = o.M.file
        /\ keyvault' = o.M.kv
        /\ threads' = threads \o [i \in DOMAIN o.started
                                    |-> [pc |-> "started", event |-> o.started[i],
                                         status |-> 0, response |-> None]]
        /\ res' = [op |-> "lambda", event |-> event, response |-> o.response,
                   validations |-> o.validations, forwards |-> o.forwards,
                   started |-> o.started]
        /\ UNCHANGED <<storage_type, keyvault_client, client_configured, now,
                       revoked, BYPASS_AUTH, ALLOWED_USER_ID, stores, refreshes>>

\* forward_to_azure_function_async, in its thread: the POST raises, or
\* alexa_skill runs; the answer is printed and dropped.
ForwardToAzureFunctionAsync ==
    \E i \in DOMAIN threads :
      /\ threads[i].pc = "started"
      /\ \/ /\ threads' = [threads EXCEPT ![i].pc = "done"]
            /\ UNCHANGED <<token_cache, token_file, keyvault>>
         \/ \E a \in alexa_skill(Media, threads[i].event, <<>>) :
              /\ threads' = [threads EXCEPT ![i] = [@ EXCEPT !.pc = "done",
                                                            !.status = a.status,
                                                            !.response = a.response]]
              /\ token_cache' = a.M.cache
              /\ token_file' = a.M.file
              /\ keyvault' = a.M.kv
      /\ UNCHANGED <<storage_type, keyvault_client, client_configured, now, res,
                     revoked, BYPASS_AUTH, ALLOWED_USER_ID, stores, refreshes>>

LambdaNext ==
    \/ LambdaHandler
    \/ ForwardToAzureFunctionAsync

\* The proxy and the function behind it, on the memory backend.
LambdaSpec == DirectiveInit /\ [][LambdaNext]_vars

----------------------------------------------------------------------------
(* Properties of the directive router.                                     *)

\* The error messages with which the authenticator refuses a request.
AuthenticationErrors ==
    {"Authentication required", "Invalid access token", "User not authorized"}

Namespace == Get(res.request.body, "directive.header.namespace", "")
DirectiveName == Get(res.request.body, "directive.header.name", "")
IsAcceptGrant == Namespace = "Alexa.Authorization" /\ DirectiveName = "AcceptGrant"

\* The positions in the calls of the last directive that call the operation.
CallsOf(operation) == { i \in DOMAIN res.calls : res.calls[i][1] = operation }

(* C16.  A request that is refused gets the same answer whatever the       *)
(* reason of the refusal (no token, invalid token, or a resolved identity  *)
(* that is not the allowed user): on the Smart Home path the same error    *)
(* type and message, on the custom-skill path the same status and message. *)
C16_SameFailureResponse ==
    /\ (res.op = "directive" /\ ~res.ok) =>
         /\ res.error \in AuthenticationErrors
         /\ \A e \in AuthenticationErrors :
              res.response = AuthenticationFailed(Decision(FALSE, "", e, NoToken, 0))
    /\ (res.op = "custom" /\ ~res.ok) =>
         /\ res.error \in AuthenticationErrors
         /\ \A e \in AuthenticationErrors :
              res.response = AuthenticationRequired(Decision(FALSE, "", e, NoToken, 0))

\* A directive was refused because the resolved identity is not the allowed
\* user.
C16_Witness ==
    /\ res.op = "directive"
    /\ ~res.ok
    /\ res.error = "User not authorized"
    /\ res.response.type = "INVALID_AUTHORIZATION_CREDENTIAL"

(* C17.  Every directive other than Alexa.Authorization/AcceptGrant is     *)
(* authenticated exactly once, before any handler; when that fails nothing *)
(* else is called (no handler, no state-change report, no code exchange).  *)
(* AcceptGrant is the only directive handled without authentication and    *)
(* the only one that exchanges an authorization code.                      *)
C17_AuthenticateOnceBeforeHandlers ==
    res.op = "directive" =>
      /\ ~IsAcceptGrant => CallsOf("authenticate_smart_home_request") = {1}
      /\ IsAcceptGrant => CallsOf("authenticate_smart_home_request") = {}
      /\ (~IsAcceptGrant /\ ~res.ok) => Len(res.calls) = 1
      /\ CallsOf("exchange_authorization_code") # {} => IsAcceptGrant
      /\ CallsOf("handle_accept_grant") # {} => IsAcceptGrant

\* A TurnOn for a known endpoint was refused: only the authenticator ran.
C17_Witness ==
    /\ res.op = "directive"
    /\ Namespace = "Alexa.PowerController"
    /\ DirectiveName = "TurnOn"
    /\ Get(res.request.body, "directive.endpoint.endpointId", <<>>) = EndpointId("bedroom")
    /\ Has(res.request.body, AlexaPaths[1])
    /\ ~res.ok
    /\ res.calls = << <<"authenticate_smart_home_request">> >>

(* C18.  Every TurnOn/TurnOff directive that passes authentication with    *)
(* its own bearer token and names a known endpoint makes exactly one       *)
(* state-change report for that endpoint with the new power state, whether *)
(* the token is structured or opaque.                                      *)
C18_PowerDirectiveReportsStateChange ==
    ( /\ res.op = "directive"
      /\ ~BYPASS_AUTH
      /\ Namespace = "Alexa.PowerController"
      /\ DirectiveName \in {"TurnOn", "TurnOff"}
      /\ res.ok
      /\ \E device_key \in VirtualDevices :
           res.request.body["directive.endpoint.endpointId"] = EndpointId(device_key) ) =>
      /\ Cardinality(CallsOf("send_change_report")) = 1
      /\ \A i \in CallsOf("send_change_report") :
           /\ res.calls[i][3] = res.request.body["directive.endpoint.endpointId"]
           /\ res.calls[i][4] = (IF DirectiveName = "TurnOn" THEN "ON" ELSE "OFF")

----------------------------------------------------------------------------
(* Terminal gateway failures.                                              *)

(* C19.  When the first gateway POST of a state-change report gets a       *)
(* status other than 202 and 401, or fails with a timeout, the call fails  *)
(* at once: no second POST, no refresh request after the POST, and the     *)
(* store stays as it was when the POST was sent.                           *)
C19_OtherStatusIsTerminal ==
    ( /\ res.op = "send"
      /\ Len(res.posts) >= 1
      /\ res.posts[1][2] \notin {202, 401} ) =>
      /\ ~res.ok
      /\ Len(res.posts) = 1
      /\ res.retry = "none"
      /\ res.late_requests = 0
      /\ res.store_kept

\* The sender that retries after a 401 got a 403 for a valid stored token
\* and stopped.
C19_Witness ==
    /\ res.op = "send"
    /\ res.sender = "send_change_report_to_alexa"
    /\ ~Falsy(res.read)
    /\ Get(res.read, "refresh_token", "") # ""
    /\ res.posts = << <<AccessTokenOf(res.read), 403>> >>
    /\ ~res.ok

----------------------------------------------------------------------------
(* Deleting a record.                                                      *)

\* On every backend and for every way the I/O can go, deleting twice gives
\* the result and the store of deleting once.
DeleteTwiceIsDeleteOnce ==
    \A user_id \in Callers, io \in DeleteIoOutcomes :
      LET once  == delete_tokens(Media, user_id, io)
          twice == delete_tokens(once.M, user_id, io)
      IN  twice.ok = once.ok /\ twice.M = once.M

\* One of the three backends is configured.
KnownBackend == storage_type \in {"memory", "file", "azure_key_vault"}

----------------------------------------------------------------------------
(* Revocation.                                                             *)

DeleteImpossible(io) ==
    \/ ~KnownBackend
    \/ storage_type = "file" /\ token_file # <<>> /\ io = "fail"

----------------------------------------------------------------------------
(* Failures of the token operations.                                       *)

----------------------------------------------------------------------------
(* The record an exchange writes.                                          *)

\* The table of a medium of M.
TableIn(M, medium) ==
    CASE medium = "cache" -> M.cache
      [] medium = "file" -> TableOf(M.file)
      [] medium = "kv" -> M.kv

(* C24.  A successful exchange writes exactly one record: under the user   *)
(* id resolved from the returned access token when that resolves, and      *)
(* under the grantee identifier otherwise.  The record's user_id is that   *)
(* identifier and its original_user_token is the grantee identifier.       *)
C24_ExchangeWritesOneRecord ==
    client_configured =>
      \A user_id \in Callers, auth_code \in AuthCodes, response \in ExchangeResponses :
        \A o \in ExchangeWith(Media, auth_code, user_id, response) :
          o.ok =>
            LET resolved == extract_user_id_from_token(response.body["access_token"])
                target == IF resolved # "" THEN resolved ELSE user_id
            IN  /\ o.tokens["user_id"] = target
                /\ o.tokens["original_user_token"] = user_id
                /\ o.wrote \in {"cache", "file", "kv"}
                /\ \A medium \in {"cache", "file", "kv"} :
                     TableIn(o.M, medium) =
                       IF medium = o.wrote
                       THEN Put(TableIn(Media, medium), _get_user_key(target), o.tokens)
                       ELSE TableIn(Media, medium)

\* An exchange for grantee u1 returned a structured token naming u2: the
\* record is stored under u2 and u1 has none.
C24_Witness ==
    /\ res.op = "exchange"
    /\ res.ok
    /\ res.user = "u1"
    /\ res.tokens["user_id"] = "u2"
    /\ res.tokens["original_user_token"] = "u1"
    /\ Stored(res.wrote, "u2") = res.tokens
    /\ Stored(res.wrote, "u1") = None

----------------------------------------------------------------------------
(* A stored expiry that cannot be read.                                    *)

(* C25.  When the expires_at of the record that get_valid_access_token     *)
(* read cannot be parsed, or cannot be compared with the current time, the *)
(* call succeeds with the record's access token, sends no refresh request  *)
(* and writes nothing to the store.                                        *)
C25_UnreadableExpiryAssumedValid ==
    ( /\ res.op = "get_valid"
      /\ ~Falsy(res.read)
      /\ ~Falsy(AccessTokenOf(res.read))
      /\ Has(res.read, "expires_at")
      /\ ~Parseable(res.read) ) =>
      /\ res.ok
      /\ res.access_token = AccessTokenOf(res.read)
      /\ res.requests = 0
      /\ ~res.refreshed
      /\ res.wrote = "none"
      /\ \E io \in IoOutcomes : get_tokens(Media, res.user, io) = res.read

\* A record whose expires_at carries a zone, and which has a refresh token,
\* was used as it is.
C25_Witness ==
    /\ res.op = "get_valid"
    /\ Has(res.read, "expires_at")
    /\ res.read["expires_at"] = <<"iso", 0, "Z">>
    /\ Has(res.read, "refresh_token")
    /\ client_configured
    /\ res.ok
    /\ res.access_token = OpaqueToken1

----------------------------------------------------------------------------
(* Identity Resolver.                                                      *)

\* The fields the resolver looks at, in its order.
IdentityFields == <<"sub", "user_id", "userId", "aud">>

\* The resolved token has three segments and its middle one decodes to a
\* JSON object.
ResolvedPayload == DecodePayload(res.token[2]).payload
Decodes == Len(res.token) = 3 /\ DecodePayload(res.token[2]).ok

(* C26 as stated: for a token of three segments whose middle one decodes   *)
(* to a mapping the result is the value of the first field present among   *)
(* sub, user_id, userId, aud; it is absent for another segment count, for  *)
(* a failed decode, and when none of the four is present.                  *)
C26_AsStated ==
    res.op = "resolve" =>
      IF Decodes /\ \E i \in 1..4 : Has(ResolvedPayload, IdentityFields[i])
      THEN LET i == CHOOSE i \in 1..4 :
                      /\ Has(ResolvedPayload, IdentityFields[i])
                      /\ \A j \in 1..(i - 1) : ~Has(ResolvedPayload, IdentityFields[j])
           IN  res.user_id = ResolvedPayload[IdentityFields[i]]
      ELSE res.user_id = ""

\* The field is present with a value that is not empty or null.
HasValue(payload, field) == Has(payload, field) /\ payload[field] # ""

(* C26.  For a token of three segments whose middle one decodes to a       *)
(* mapping the result is the value of the first field among sub, user_id,  *)
(* userId, aud that is present with a non-empty value; it is absent for    *)
(* another segment count, for a failed decode, and when none of the four   *)
(* has a non-empty value.                                                  *)
C26_FirstNonEmptyField ==
    res.op = "resolve" =>
      IF Decodes /\ \E i \in 1..4 : HasValue(ResolvedPayload, IdentityFields[i])
      THEN LET i == CHOOSE i \in 1..4 :
                      /\ HasValue(ResolvedPayload, IdentityFields[i])
                      /\ \A j \in 1..(i - 1) : ~HasValue(ResolvedPayload, IdentityFields[j])
           IN  res.user_id = ResolvedPayload[IdentityFields[i]]
      ELSE res.user_id = ""

\* The token whose middle segment is base64url of {"sub":"abc123"} resolved
\* to abc123.
C26_Witness ==
    /\ res.op = "resolve"
    /\ Len(res.token) = 3
    /\ res.token[2] = "eyJzdWIiOiJhYmMxMjMifQ"
    /\ res.user_id = "abc123"

----------------------------------------------------------------------------
(* Concurrent stores on the file backend.                                  *)

\* Two calls for different users have both returned True.
BothStored(w, v) ==
    /\ w \in DOMAIN stores /\ v \in DOMAIN stores
    /\ stores[w].pc = "returned" /\ stores[v].pc = "returned"
    /\ stores[w].ok /\ stores[v].ok
    /\ stores[w].user_id # stores[v].user_id

(* C27.  On the file backend two concurrent stores for different users     *)
(* interleave their read-modify-write: when both have returned True, the   *)
(* file is the table of the call that wrote last, so the other user's      *)
(* record is in it only if the last writer had loaded it; the state where  *)
(* it is missing is reachable (C27_Witness).                               *)
C27_LastWriterWins ==
    \A w \in Workers, v \in Workers :
      (BothStored(w, v) /\ res.op = "store" /\ res.ok /\ res.worker = w) =>
        /\ token_file = <<stores[w].all_tokens>>
        /\ Has(FileTable(Media), _get_user_key(stores[v].user_id))
             <=> Has(stores[w].all_tokens, _get_user_key(stores[v].user_id))

\* Both calls returned True and the record of one of the two users is not in
\* the file.
C27_Witness ==
    \E w \in Workers, v \in Workers :
      /\ BothStored(w, v)
      /\ token_file # <<>>
      /\ ~Has(FileTable(Media), _get_user_key(stores[v].user_id))

----------------------------------------------------------------------------
(* Network failures.                                                       *)

\* requests.post / requests.get raised, or response.json() did.
NoAnswer == [status |-> 0, body |-> None]

\* The Key Vault requests of the call raised.
VaultUnreachable(io) == io \in {"get_fail", "delete_fail"}

\* exchange_authorization_code and refresh_access_token fail when the token
\* endpoint does not answer.
ExchangeFailsUnanswered ==
    \A user_id \in Callers, auth_code \in AuthCodes :
      \A o \in ExchangeWith(Media, auth_code, user_id, NoAnswer) : ~o.ok

RefreshFailsUnanswered ==
    \A user_id \in Callers, io \in IoOutcomes :
      LET current_tokens == get_tokens(Media, user_id, io)
      IN  ~Falsy(current_tokens) =>
            \A o \in RefreshAnswered(Media, user_id, current_tokens, NoAnswer) : ~o.ok

\* get_valid_access_token fails when the refresh it needs is not answered.
GetValidFailsUnanswered ==
    \A user_id \in Callers, io \in IoOutcomes, again \in IoOutcomes :
      LET tokens == get_tokens(Media, user_id, io)
          current_tokens == get_tokens(Media, user_id, again)
      IN  (~Falsy(tokens) /\ ~Falsy(current_tokens)) =>
            \A r \in RefreshAnswered(Media, user_id, current_tokens, NoAnswer) :
              ~ValidRefreshed(Media, tokens, r).ok

\* Both senders fail when the last POST to the gateway is not answered.
SendFailsUnanswered ==
    \A user_id \in Callers :
      \A o \in send_change_report(Media, user_id)
                 \cup send_change_report_to_alexa(Media, user_id) :
        (o.posts # <<>> /\ o.posts[Len(o.posts)][2] = 0) => ~o.ok

\* Both entry points of the authenticator fail when the introspection
\* endpoint does not answer.
AuthenticateFailsUnanswered ==
    BYPASS_AUTH \/
      \A access_token \in {OpaqueToken1, StructuredToken} :
        /\ ~validate_amazon_token(access_token, NoAnswer).ok
        /\ ~Introspect(access_token, NoAnswer).ok

\* revoke_tokens fails when the vault cannot be reached.
RevokeFailsUnreachable ==
    \A user_id \in Callers :
      \A o \in revoke_tokens(Media, user_id) : VaultUnreachable(o.io) => ~o.ok

(* C28.  exchange, refresh, getValidAccessToken, sendStateChange, revoke   *)
(* and authenticate each end with a failure result when a network call     *)
(* they make times out, fails to connect or answers with a body that       *)
(* cannot be parsed.  The network call of the first five is the request to *)
(* the provider; the only network calls of revoke are those of the vault.  *)
C28_NetworkFailureIsFailureResult ==
    /\ ExchangeFailsUnanswered
    /\ RefreshFailsUnanswered
    /\ GetValidFailsUnanswered
    /\ SendFailsUnanswered
    /\ AuthenticateFailsUnanswered
    /\ RevokeFailsUnreachable

----------------------------------------------------------------------------
(* Ownership of the stored records.                                        *)

(* C29.  The store's contents change only through store and delete: a      *)
(* caller that mutates the record it was returned by get, exchange or      *)
(* refresh changes neither the store nor what a later get returns, on      *)
(* every backend.                                                          *)
C29_CallersHoldCopies ==
    [][res'.op = "mutate" =>
         /\ token_cache' = token_cache
         /\ token_file' = token_file
         /\ keyvault' = keyvault
         /\ \A user_id \in Users, io \in IoOutcomes :
              get_tokens(Media, user_id, io)' = get_tokens(Media, user_id, io)]_vars

----------------------------------------------------------------------------
(* The stored-token lookup of the authenticator.                           *)

\* The token the authenticator extracts from the directive.
PresentedToken ==
    extract_token_from_alexa_request(res.request.body, res.request.headers)

\* The access tokens of the records in the store.
StoredAccessTokens ==
    { token_cache[k]["access_token"] :
        k \in { x \in DOMAIN token_cache : Has(token_cache[x], "access_token") } }

(* C30.  For every Smart Home directive that is authenticated without      *)
(* bypass and carries a token, the lookup among the stored tokens misses    *)
(* and the introspection endpoint is asked exactly once; the request is     *)
(* accepted only on an introspection response of status 200 with a user    *)
(* id, also when the token is the access token of a stored record.         *)
C30_StoredTokenIsIntrospected ==
    ( /\ res.op = "directive"
      /\ ~BYPASS_AUTH
      /\ ~SkipsAuthentication(Namespace, DirectiveName)
      /\ ~Falsy(PresentedToken) ) =>
      /\ validate_oauth_token(PresentedToken) = ""
      /\ res.requests = 1
      /\ \A response \in IntrospectionResponses :
           authenticate_smart_home_request(res.request.body, res.request.headers,
                                           response).ok
             => (response.status = 200 /\ Get(response.body, "user_id", "") # "")

\* A directive presented the access token of a stored record and was
\* refused after one introspection request.
C30_Witness ==
    /\ res.op = "directive"
    /\ ~BYPASS_AUTH
    /\ ~SkipsAuthentication(Namespace, DirectiveName)
    /\ PresentedToken \in StoredAccessTokens
    /\ res.requests = 1
    /\ ~res.ok

----------------------------------------------------------------------------
(* The lifecycle of a user's grant.                                        *)

\* The step gave user_id a record it did not have.
RecordCreated(user_id) == NoRecord(Media, user_id) /\ ~NoRecord(Media', user_id)

\* The step was a successful exchange that stored under user_id.
ExchangeStoredUnder(user_id) ==
    /\ res'.op = "exchange"
    /\ res'.ok
    /\ res'.tokens["user_id"] = user_id

(* C31.  get_valid_access_token(u) succeeds only where the store holds a   *)
(* record for u; a record for u comes into being only by a successful      *)
(* exchange that stored under u, never by a refresh; and no record of u is *)
(* left once revoke(u) has succeeded, until the next such exchange.        *)
C31_LifecycleRespected ==
    [][ /\ (res'.op = "get_valid" /\ res'.ok) => ~NoRecord(Media', res'.user)
        /\ \A user_id \in Users :
             /\ RecordCreated(user_id) => ExchangeStoredUnder(user_id)
             /\ user_id \in revoked' => NoRecord(Media', user_id) ]_vars

----------------------------------------------------------------------------
(* What get_valid_access_token returns.                                    *)

(* C32.  Whenever get_valid_access_token returns success the token it      *)
(* returns is non-empty, also when it refreshed and the provider's 200     *)
(* response had no access_token.                                           *)
C32_ValidTokenNeverEmpty ==
    (res.op = "get_valid" /\ res.ok) => ~Falsy(res.access_token)

(* C33.  When get_valid_access_token finds the token at or within the skew *)
(* and the refresh it calls fails, it returns failure with no token, not   *)
(* the stored token, and the store is as it was.                           *)
C33_FailedRefreshIsFailure ==
    [][ ( /\ res'.op = "get_valid"
          /\ res'.refreshed
          /\ res'.response = NoResponse ) =>
          ( /\ ~res'.ok
            /\ Falsy(res'.access_token)
            /\ res'.error = "Token refresh failed"
            /\ res'.wrote = "none"
            /\ Media' = Media ) ]_vars

\* A call on a token within the skew but not yet expired failed because the
\* refresh was not answered; the stored record is the one it read.
C33_Witness ==
    /\ res.op = "get_valid"
    /\ res.refreshed
    /\ ~res.ok
    /\ Falsy(res.access_token)
    /\ res.requests = 1
    /\ res.response = NoResponse
    /\ ExpiryOf(res.read) > now
    /\ \A io \in IoOutcomes : get_tokens(Media, res.user, io) = res.read

\* The record has no expires_at and holds an access token.
NeverExpires(tokens) ==
    ~Falsy(tokens) /\ ~Has(tokens, "expires_at") /\ ~Falsy(AccessTokenOf(tokens))

\* get_valid_access_token, having read tokens, returns its access token and
\* sends no request.
ReturnedAsStored(M, user_id, tokens) ==
    \A v \in ValidWith(M, user_id, tokens) :
      /\ v.ok
      /\ v.access_token = AccessTokenOf(tokens)
      /\ v.requests = 0
      /\ ~v.refreshed

(* C34.  When a successful exchange or refresh response omits expires_in,  *)
(* the record stored has no expires_at, and get_valid_access_token for     *)
(* that user returns the issued access token without a refresh request,    *)
(* then and for as long as the record is the stored one.  Read in the      *)
(* claim's favour: the response has an access_token, and the store's       *)
(* backend requests succeed.                                               *)
C34_NoExpiryNeverRefreshed ==
    /\ ( /\ res.op \in {"exchange", "refresh"}
         /\ res.ok
         /\ ~Has(res.response.body, "expires_in")
         /\ Has(res.response.body, "access_token") ) =>
         LET stored_under == res.tokens["user_id"]
             tokens == get_tokens(Media, stored_under, "ok")
         IN  /\ ~Has(res.tokens, "expires_at")
             /\ tokens = res.tokens
             /\ ReturnedAsStored(Media, stored_under, tokens)
    /\ \A user_id \in Users, io \in IoOutcomes :
         LET tokens == get_tokens(Media, user_id, io)
         IN  NeverExpires(tokens) => ReturnedAsStored(Media, user_id, tokens)

----------------------------------------------------------------------------
(* One user's operations and another user's record.                        *)

\* The step left what get_tokens returns unchanged for every user but
\* user_id, however the backend request of the read goes.
OthersUntouched(user_id) ==
    \A other \in Users \ {user_id}, io \in IoOutcomes :
      get_tokens(Media', other, io) = get_tokens(Media, other, io)

(* C35 as stated.  Exchange, refresh and revoke called for one user leave  *)
(* what get returns for every other user unchanged.                        *)
C35_AsStated ==
    [][res'.op \in {"exchange", "refresh", "revoke"} => OthersUntouched(res'.user)]_vars

\* The user a step wrote or deleted for: a successful exchange stores under
\* the user id of the record it returns.
WrittenFor ==
    IF res'.op = "exchange" /\ res'.ok THEN res'.tokens["user_id"] ELSE res'.user

(* C35.  Refresh and revoke called for one user, and an exchange that      *)
(* stores under one user (the id resolved from the issued token, else the  *)
(* caller's), leave what get returns for every other user unchanged.       *)
C35_OtherUsersUntouched ==
    [][res'.op \in {"exchange", "refresh", "revoke"} => OthersUntouched(WrittenFor)]_vars

\* u1's record was revoked on the vault backend and u2's record, which was
\* there before, is what get returns for u2.
C35_Witness ==
    /\ res.op = "revoke"
    /\ res.user = "u1"
    /\ res.ok
    /\ ~res.absent
    /\ storage_type = "azure_key_vault"
    /\ \E io \in IoOutcomes : get_tokens(Media, "u2", io) = BystanderRecord

----------------------------------------------------------------------------
(* Concurrent refreshes of one user on the memory backend.                 *)

\* The record is, field for field, what the call wrote: everything from
\* the call's own response, and the refresh token the call had read where
\* the response has none.
WrittenBy(record, call) ==
    LET body == call.response.body
    IN  /\ call.pc = "returned" /\ call.ok
        /\ AccessTokenOf(record) = AccessTokenOf(body)
        /\ Get(record, "refresh_token", "") =
             (IF Has(body, "refresh_token") THEN body["refresh_token"]
              ELSE call.current_tokens["refresh_token"])
        /\ Has(record, "expires_in") = Has(body, "expires_in")
        /\ Has(record, "expires_at") = Has(body, "expires_in")
        /\ Has(body, "expires_in") =>
             /\ record["expires_in"] = body["expires_in"]
             /\ record["expires_at"] = IsoFormat(now + body["expires_in"])
        /\ DOMAIN record = DOMAIN body \cup {"refresh_token", "user_id", "obtained_at",
                                             "refreshed_at", "updated_at"}
                             \cup (IF Has(body, "expires_in") THEN {"expires_at"} ELSE {})

(* C36.  When two refreshes of the same near-expiry user interleave on the *)
(* memory backend, each sends its own request, and in every state the      *)
(* stored record is the one that was there or, field for field, the record *)
(* one of the two calls wrote; once a call has stored, it is the record of  *)
(* a call that stored.                                                     *)
C36_StoredRecordIsOneCalls ==
    LET record == Get(token_cache, _get_user_key("u1"), None)
        stored == { w \in DOMAIN refreshes : refreshes[w].pc = "returned" /\ refreshes[w].ok }
    IN  IF stored = {} THEN record = NearExpiryRecord
        ELSE \E w \in stored : WrittenBy(record, refreshes[w])

\* Both calls read the near-expiry record before either stored, each was
\* answered with a different access token, and both have stored.
C36_Witness ==
    /\ DOMAIN refreshes = Workers
    /\ \A w \in Workers :
         /\ refreshes[w].pc = "returned" /\ refreshes[w].ok
         /\ refreshes[w].current_tokens = NearExpiryRecord
    /\ AccessTokenOf(refreshes[1].response.body) # AccessTokenOf(refreshes[2].response.body)
    /\ ~Has(refreshes[1].response.body, "expires_in")
    /\ Has(refreshes[2].response.body, "expires_in")
    /\ res.op = "refresh" /\ res.worker = 1

----------------------------------------------------------------------------
(* The announce endpoint.                                                  *)

(* C37.  announce answers 200 with success and press_event_triggered only  *)
(* if the message was enqueued and the DoorbellPress event was delivered   *)
(* to the gateway (202); when the enqueue fails or the event is not        *)
(* delivered it answers an error.                                          *)
C37_SuccessOnlyWhenDelivered ==
    res.op = "announce" =>
      /\ (res.status = 200 /\ res.success /\ res.press_event_triggered) =>
           (res.enqueued /\ res.delivered)
      /\ (~res.enqueued \/ ~res.delivered) => (res.status # 200 /\ ~res.success)

----------------------------------------------------------------------------
(* The Lambda proxy.                                                       *)

\* The last event handled by the proxy is an Alexa.Authorization directive.
ProxiedAuthorization == is_authorization_directive(res.event)

(* C38.  The proxy forwards a request that is not an Alexa.Authorization   *)
(* directive only after a token was extracted from it and the profile      *)
(* endpoint answered 200 to that token, and the forwarded request carries  *)
(* that token as its Authorization Bearer header; with no token, or with   *)
(* a validation that failed, it answers INVALID_AUTHORIZATION_CREDENTIAL   *)
(* and forwards nothing.                                                   *)
C38_ForwardsOnlyValidatedToken ==
    (res.op = "lambda" /\ ~ProxiedAuthorization) =>
      LET lwa_token == extract_lwa_token(res.event)
      IN  /\ res.started = <<>>
          /\ res.forwards # <<>> =>
               /\ ~Falsy(lwa_token)
               /\ res.validations = << [token |-> lwa_token, status |-> 200] >>
               /\ res.forwards = << [headers |-> [Authorization |-> <<"Bearer", lwa_token>>],
                                     body |-> res.event] >>
          /\ (Falsy(lwa_token)
                \/ \A i \in DOMAIN res.validations : res.validations[i].status # 200) =>
               /\ res.response = create_authentication_error_response
               /\ res.forwards = <<>>

\* A directive whose token the profile endpoint accepted was forwarded and
\* answered by the function.
C38_Witness ==
    /\ res.op = "lambda" /\ ~ProxiedAuthorization
    /\ res.forwards # <<>>
    /\ res.response.name # "ErrorResponse"
    /\ Get(res.event, "directive.header.namespace", "") = "Alexa.Discovery"

\* The last event handled by the proxy is an AcceptGrant directive.
ProxiedAcceptGrant ==
    ProxiedAuthorization /\ Get(res.event, "directive.header.name", "") = "AcceptGrant"

\* No user has a token record.
NothingStored == \A user_id \in Users : NoRecord(Media, user_id)

====
